---- MODULE Spec2Model ----
(***************************************************************************)
(* Entry-point execution core of the blockifier: the call dispatcher       *)
(* (CallEntryPoint::execute), the execution context it threads through the *)
(* call tree, and the syscall hint processor of one frame.                 *)
(*                                                                         *)
(* The call stack of the synchronous recursion execute -> VM run ->        *)
(* syscall -> execute is the sequence `stack`: one SyscallHintProcessor    *)
(* per frame whose VM run is in progress.  `ret` is the value an execute   *)
(* call has just returned and that its caller has not consumed yet.        *)
(***************************************************************************)
EXTENDS Integers, Sequences, FiniteSets, TLC

(* ------------------------------ bounds -------------------------------- *)

\* block_context.max_recursion_depth of the modelled block.
MaxRecursionDepth == 2
\* Syscall hints handled over the lifetime of one context, in the
\* specifications of the dispatcher, of the emissions and of the gas protocol.
MaxDispatchOps == 3
MaxOps == 5
MaxGasOps == 2
MaxConstructorOps == 2
MaxStorageOps == 4
\* Syscall hints handled in the specification of the syscall outcomes.
MaxSyscallOps == 3
\* block_context.max_recursion_depth of the block, and the syscall hints
\* handled, in the specification of the delegation.
MaxDelegationDepth == 3
MaxDelegationOps == 4
\* Syscall hints handled in the specification of the step meter.
MaxMeterOps == 2
\* Syscall hints handled in the specification of the failures.
MaxFailureOps == 4
\* Largest order of a message in a call tree handed to the functions of
\* CallInfo.
MaxOrder == 3
\* Largest max_fee, gas_price and invoke_tx_max_n_steps handed to
\* max_invoke_steps.
MaxFee == 4
MaxGasPrice == 2
MaxInvokeTxSteps == 4
\* Top-level execute calls made on one context.
MaxTopCalls == 2
\* Largest gas counter a request carries.
MaxGas == 2
\* max_n_steps of the context of the step meter, and the steps it consumes.
MaxNSteps == 3

(* --------------------------- program values --------------------------- *)

\* Option::None of an Option<ClassHash> / Option<ContractAddress>.
NoneVal == -1

\* ClassHash::default(): the class hash of an address nothing is deployed at.
ZeroClassHash == 0

\* FAULTY_CLASS_HASH, as a small class hash.
FaultyClassHash == 2

\* "Out of gas" as a felt.
OUT_OF_GAS_ERROR == 79

Addresses == 1 .. 3

\* state.get_class_hash_at: address 1 runs class 1, address 2 runs the faulty
\* class, nothing is deployed at address 3.
ClassHashAt(address) ==
    CASE address = 1 -> 1
      [] address = 2 -> FaultyClassHash
      [] OTHER -> ZeroClassHash

\* Class hashes state.get_compiled_contract_class knows; class 3 is undeclared.
DeclaredClasses == {1, FaultyClassHash, 4}

\* selector_from_name: the selector of an entry point name, as a small felt.
SelectorFromName(name) ==
    CASE name = "constructor" -> 7
      [] name = "__execute__" -> 5
      [] OTHER -> 9

\* contract_class.constructor_selector(): class 4 exposes no constructor, the
\* other classes expose one under the name "constructor".
ConstructorSelector(class_hash) ==
    IF class_hash = 4 THEN NoneVal ELSE SelectorFromName("constructor")

ClassHashes == {1, FaultyClassHash, 3}

StorageKeys == {1, 2}

StorageValues == {0, 1}

\* "Invalid input length" as a felt.
INVALID_INPUT_LENGTH_ERROR == 73

\* usize::MAX of a three-bit usize.
USIZE_MAX == 7

\* The words of a Keccak block and the gas cost of a round, as small numbers.
KECCAK_FULL_RATE_IN_WORDS == 2

KECCAK_ROUND_COST_GAS_COST == 1

\* ark_secp256k1::Affine: the points of the curve, as the group of the
\* integers modulo 3.
Secp256k1Points == 0 .. 2

Secp256k1Sum(lhs, rhs) == (lhs + rhs) % 3

\* The syscall selectors execute_next_syscall dispatches, and one known
\* selector it does not support.
SyscallSelectors ==
    {"CallContract", "Deploy", "EmitEvent", "GetBlockHash", "GetExecutionInfo",
     "Keccak", "LibraryCall", "LibraryCallL1Handler", "ReplaceClass",
     "Secp256k1Add", "Secp256k1GetPointFromX", "Secp256k1GetXy", "Secp256k1Mul",
     "Secp256k1New", "SendMessageToL1", "StorageRead", "StorageWrite",
     "GetCallerAddress"}

\* Retdata a frame may return.
Retdatas == {<<>>, <<57005>>}

VARIABLES
    context,    \* EntryPointExecutionContext
    state,      \* dyn State: contract storage
    stack,      \* SyscallHintProcessor of every frame whose VM run is in progress
    ret,        \* result of the execute call that has just returned
    result,     \* what the last top-level execute returned to the driver
    startDepth, \* current_recursion_depth when the last top-level execute began
    topCalls,   \* top-level execute calls made so far
    nOps,       \* syscall hints handled so far
    lastResp,   \* the last syscall response written to VM memory
    dispatched, \* the descriptor of the last execute call
    input,      \* the arguments of the driver's last call, unless it was execute
    output,     \* what a function of the context or of a call tree returned
    resources,  \* ExecutionResources: the syscall counter
    hint        \* the hint error of its own the last failed VM run ended with

vars ==
    <<context, state, stack, ret, result, startDepth, topCalls, nOps, lastResp,
      dispatched, input, output, resources, hint>>

(* ------------------------------- data --------------------------------- *)

\* CallEntryPoint.
CallEntryPoint(class_hash, code_address, entry_point_type, entry_point_selector, calldata, storage_address, caller_address, call_type, initial_gas) ==
    [class_hash |-> class_hash,
     code_address |-> code_address,
     entry_point_type |-> entry_point_type,
     entry_point_selector |-> entry_point_selector,
     calldata |-> calldata,
     storage_address |-> storage_address,
     caller_address |-> caller_address,
     call_type |-> call_type,
     initial_gas |-> initial_gas]

DefaultCall == CallEntryPoint(NoneVal, NoneVal, "External", 0, <<>>, 0, 0, "Call", 0)

\* CallInfo::default().
DefaultCallInfo ==
    [call |-> DefaultCall,
     execution |-> [retdata |-> <<>>, events |-> <<>>, l2_to_l1_messages |-> <<>>,
                    failed |-> FALSE, gas_consumed |-> 0],
     inner_calls |-> <<>>,
     storage_read_values |-> <<>>,
     accessed_storage_keys |-> {}]

\* No syscall of the frame is waiting for an inner call.
NoPending ==
    [active |-> FALSE, seq |-> 0, selector |-> "None", arg |-> 0,
     gas_counter |-> 0, remaining_gas |-> 0, ptr_start |-> 0]

\* The frame has answered no syscall yet.
NoSyscall == [kind |-> "None", selector |-> "None", ptr_start |-> 0]

\* SyscallHintProcessor::new.
NewProcessor(call) ==
    [call |-> call,
     inner_calls |-> <<>>,
     events |-> <<>>,
     l2_to_l1_messages |-> <<>>,
     syscall_ptr |-> 0,
     read_values |-> <<>>,
     accessed_keys |-> {},
     secp256k1_points |-> <<>>,
     pending |-> NoPending,
     answered |-> NoSyscall]

NoRet == [kind |-> "None", info |-> DefaultCallInfo, error |-> "None",
          address |-> 0, trace |-> <<>>, at |-> 0, input_descriptor |-> ""]

OkRet(info) == [kind |-> "Ok", info |-> info, error |-> "None",
                address |-> 0, trace |-> <<>>, at |-> 0, input_descriptor |-> ""]

\* An EntryPointExecutionError: `address` is the address an
\* UninitializedStorageAddress names, `trace` the trace of a
\* VirtualMachineExecutionErrorWithTrace, `at` the nesting level of the
\* execute call that raised the innermost error.
ErrRet(error, address, trace, at) ==
    [kind |-> "Err", info |-> DefaultCallInfo, error |-> error,
     address |-> address, trace |-> trace, at |-> at, input_descriptor |-> ""]

\* EntryPointExecutionError::InvalidExecutionInput { input_descriptor, .. }.
InvalidExecutionInput(input_descriptor) ==
    [ErrRet("InvalidExecutionInput", 0, <<>>, 0)
        EXCEPT !.input_descriptor = input_descriptor]

\* No function of the context or of a call tree was called.
NoInput == [fn |-> "None"]

NoOutput == [fn |-> "None", kind |-> "None"]

\* ExecutionResources::default(): no syscall counted (an absent entry of
\* the map is a count of 0).
NewResources == [syscall_counter |-> [selector \in SyscallSelectors |-> 0]]

\* No VM run of the top-level call has failed, or the last one to fail did
\* not end with a hint error of its own (the error of an inner call is in
\* `ret`).
NoHint ==
    [error |-> "None", selector |-> "None", input |-> 0, expected_ptr |-> 0,
     actual_ptr |-> 0, processor |-> NewProcessor(DefaultCall)]

NoResponse ==
    [seq |-> 0, kind |-> "None", selector |-> "None", request_gas |-> 0,
     gas_counter |-> 0, error_data |-> <<>>, level |-> 0, arg |-> 0, value |-> 0]

(* ------------------------- EntryPointExecutionContext ------------------ *)

\* EntryPointExecutionContext::new.
NewContext(version, max_n_steps) ==
    [version |-> version,
     vm_run_resources |-> max_n_steps,
     n_emitted_events |-> 0,
     n_sent_messages_to_l1 |-> 0,
     error_stack |-> <<>>,
     current_recursion_depth |-> 0,
     max_recursion_depth |-> MaxRecursionDepth]

RECURSIVE Reverse(_)
Reverse(s) == IF s = <<>> THEN <<>> ELSE Append(Reverse(Tail(s)), Head(s))

\* format!("{}", contract_address.0.key()): the address in hexadecimal.
AddressText(address) ==
    CASE address = 0 -> "0x0"
      [] address = 1 -> "0x1"
      [] address = 2 -> "0x2"
      [] address = 3 -> "0x3"

\* format!("Error in the called contract ({}):\n{}", address, trace_string),
\* as the pieces of the text.
ErrorBlock(entry) ==
    <<"Error in the called contract (", AddressText(entry[1]), "):\n", entry[2]>>

RECURSIVE JoinLines(_)
\* join("\n") of a sequence of texts.
JoinLines(texts) ==
    IF texts = <<>> THEN <<>>
    ELSE IF Len(texts) = 1 THEN texts[1]
    ELSE texts[1] \o <<"\n">> \o JoinLines(Tail(texts))

\* Mutant of ErrorTrace: the blocks are rendered in insertion order.
ErrorTraceInsertionOrder(ctx) ==
    JoinLines([i \in 1 .. Len(ctx.error_stack) |-> ErrorBlock(ctx.error_stack[i])])

\* error_trace: one block per entry of the error stack, last pushed first,
\* joined by newlines.
ErrorTrace(ctx) ==
    LET reversed == Reverse(ctx.error_stack)
    IN  JoinLines([i \in 1 .. Len(reversed) |-> ErrorBlock(reversed[i])])

\* constants::MAX_STEPS_PER_TX, as a small number of steps.
MAX_STEPS_PER_TX == 3

Min(a, b) == IF a <= b THEN a ELSE b

\* (max_gas as f64 / gas_per_step).floor() as usize, for a gas_per_step that
\* is the fraction num / den: the cast saturates, so the quotient by zero is
\* usize::MAX for a positive max_gas (infinity) and 0 for max_gas = 0 (NaN).
FloorAsUsize(max_gas, gas_per_step) ==
    IF gas_per_step.num = 0
    THEN [kind |-> IF max_gas = 0 THEN "Finite" ELSE "UsizeMax", value |-> 0]
    ELSE [kind |-> "Finite",
          value |-> (max_gas * gas_per_step.den) \div gas_per_step.num]

\* max_invoke_steps: the steps it returns, or the panic of the integer
\* division of line 144 by a zero gas price.
MaxInvokeSteps(max_fee, gas_price, gas_per_step, invoke_tx_max_n_steps) ==
    IF max_fee = 0
    THEN [fn |-> "max_invoke_steps", kind |-> "Ok",
          value |-> Min(MAX_STEPS_PER_TX, invoke_tx_max_n_steps)]
    ELSE IF gas_price = 0
    THEN [fn |-> "max_invoke_steps", kind |-> "Panic", value |-> 0]
    ELSE LET max_gas == max_fee \div gas_price
             steps == FloorAsUsize(max_gas, gas_per_step)
         IN  [fn |-> "max_invoke_steps", kind |-> "Ok",
              value |-> IF steps.kind = "UsizeMax"
                        THEN Min(MAX_STEPS_PER_TX, invoke_tx_max_n_steps)
                        ELSE Min(Min(steps.value, MAX_STEPS_PER_TX),
                                 invoke_tx_max_n_steps)]

(* ----------------------------- the dispatcher -------------------------- *)

\* Mutant of EnterExecute: every frame starts its own ordinal space.
EnterExecuteFreshOrdinals(ctx) ==
    [ctx EXCEPT !.current_recursion_depth = @ + 1,
                !.n_emitted_events = 0,
                !.n_sent_messages_to_l1 = 0]

\* Mutant of EnterExecute: every execute call starts with the full step
\* budget.
EnterExecuteFreshBudget(ctx) ==
    [ctx EXCEPT !.current_recursion_depth = @ + 1, !.vm_run_resources = MaxNSteps]

\* execute, line 186.
EnterExecute(ctx) ==
    [ctx EXCEPT !.current_recursion_depth = @ + 1]

\* Mutant of RecursionDepthExceeded: the bound is reached one level early.
RecursionDepthExceededOffByOne(ctx) ==
    ctx.current_recursion_depth >= ctx.max_recursion_depth

\* execute, line 187.
RecursionDepthExceeded(ctx) ==
    ctx.current_recursion_depth > ctx.max_recursion_depth

\* execute, lines 198-201.
EffectiveClassHash(call) ==
    IF call.class_hash # NoneVal THEN call.class_hash
    ELSE ClassHashAt(call.storage_address)

\* Mutant of IsFraudAttempt: the gate ignores the transaction version.
IsFraudAttemptAnyVersion(ctx, class_hash) ==
    class_hash = FaultyClassHash

\* execute, lines 203-208.
IsFraudAttempt(ctx, class_hash) ==
    ctx.version = 0 /\ class_hash = FaultyClassHash

\* Mutant of PreExecution: deployment is validated on the effective class
\* hash instead of the class hash stored at the storage address.
PreExecutionChecksEffectiveHash(call, ctx) ==
    IF RecursionDepthExceeded(ctx) THEN "RecursionDepthExceeded"
    ELSE IF EffectiveClassHash(call) = ZeroClassHash
        THEN "UninitializedStorageAddress"
    ELSE IF IsFraudAttempt(ctx, EffectiveClassHash(call)) THEN "FraudAttempt"
    ELSE IF EffectiveClassHash(call) \notin DeclaredClasses THEN "UndeclaredClassHash"
    ELSE "Run"

\* What execute does between the increment and the VM run: the error it
\* returns early with, or "Run".
PreExecution(call, ctx) ==
    IF RecursionDepthExceeded(ctx) THEN "RecursionDepthExceeded"
    ELSE IF ClassHashAt(call.storage_address) = ZeroClassHash
        THEN "UninitializedStorageAddress"
    ELSE IF IsFraudAttempt(ctx, EffectiveClassHash(call)) THEN "FraudAttempt"
    ELSE IF EffectiveClassHash(call) \notin DeclaredClasses THEN "UndeclaredClassHash"
    ELSE "Run"

\* Mutant of WithClassHash: the descriptor keeps the class hash it came with.
WithClassHashAsGiven(call, class_hash) == call

\* execute, line 212.
WithClassHash(call, class_hash) == [call EXCEPT !.class_hash = class_hash]

\* execute up to the start of the VM run, called with `stk` the frames in
\* progress: either a new frame's VM run starts or execute returns early.
Dispatch(call, stk) ==
    LET ctx == EnterExecute(context)
        outcome == PreExecution(call, ctx)
    IN  /\ context' = ctx
        /\ dispatched' = call
        /\ IF outcome = "Run"
           THEN /\ stack' = Append(stk,
                        NewProcessor(WithClassHash(call, EffectiveClassHash(call))))
                /\ ret' = NoRet
           ELSE /\ stack' = stk
                /\ ret' = ErrRet(outcome,
                                  IF outcome = "UninitializedStorageAddress"
                                  THEN call.storage_address ELSE 0,
                                  <<>>, Len(stk) + 1)

\* Mutant of AfterFailedRun: the error carries what the frame had
\* accumulated when its run failed.
AfterFailedRunPartialInfo(ctx, frame, error, at) ==
    LET pushed ==
            IF error = "VirtualMachineExecutionError"
            THEN [ctx EXCEPT !.error_stack =
                      Append(@, <<frame.call.storage_address, error>>)]
            ELSE ctx
        wrapped ==
            IF error = "VirtualMachineExecutionError"
            THEN ErrRet("VirtualMachineExecutionErrorWithTrace", 0,
                        ErrorTrace(pushed), at)
            ELSE ErrRet(error, 0, <<>>, at)
    IN  [context |-> [pushed EXCEPT !.current_recursion_depth = @ - 1],
         ret |-> [wrapped EXCEPT !.info =
                    [DefaultCallInfo EXCEPT !.call = frame.call,
                                            !.execution.events = frame.events,
                                            !.inner_calls = frame.inner_calls,
                                            !.storage_read_values = frame.read_values,
                                            !.accessed_storage_keys = frame.accessed_keys]]]

\* Mutant of AfterFailedRun: an error of any kind is pushed and wrapped.
AfterFailedRunEveryError(ctx, frame, error, at) ==
    LET pushed == [ctx EXCEPT !.error_stack =
                      Append(@, <<frame.call.storage_address, error>>)]
    IN  [context |-> [pushed EXCEPT !.current_recursion_depth = @ - 1],
         ret |-> ErrRet("VirtualMachineExecutionErrorWithTrace", 0,
                        ErrorTrace(pushed), at)]

\* Mutant of AfterFailedRun: the ordinals the failed frame took are given
\* back.
AfterFailedRunRollsBack(ctx, frame, error, at) ==
    LET pushed ==
            IF error = "VirtualMachineExecutionError"
            THEN [ctx EXCEPT !.error_stack =
                      Append(@, <<frame.call.storage_address, error>>)]
            ELSE ctx
        wrapped ==
            IF error = "VirtualMachineExecutionError"
            THEN ErrRet("VirtualMachineExecutionErrorWithTrace", 0,
                        ErrorTrace(pushed), at)
            ELSE ErrRet(error, 0, <<>>, at)
    IN  [context |-> [pushed EXCEPT
                        !.current_recursion_depth = @ - 1,
                        !.n_emitted_events = @ - Len(frame.events),
                        !.n_sent_messages_to_l1 = @ - Len(frame.l2_to_l1_messages)],
         ret |-> wrapped]

\* execute after the VM run of `frame` failed with `error`, lines 215-236.
AfterFailedRun(ctx, frame, error, at) ==
    LET pushed ==
            IF error = "VirtualMachineExecutionError"
            THEN [ctx EXCEPT !.error_stack =
                      Append(@, <<frame.call.storage_address, error>>)]
            ELSE ctx
        wrapped ==
            IF error = "VirtualMachineExecutionError"
            THEN ErrRet("VirtualMachineExecutionErrorWithTrace", 0,
                        ErrorTrace(pushed), at)
            ELSE ErrRet(error, 0, <<>>, at)
    IN  [context |-> [pushed EXCEPT !.current_recursion_depth = @ - 1],
         ret |-> wrapped]

\* execute after the VM run of `frame` produced `info`, lines 235-236.
AfterRun(ctx) ==
    [ctx EXCEPT !.current_recursion_depth = @ - 1]

Top == stack[Len(stack)]

Running == stack # <<>> /\ ret.kind = "None"

\* The effects the processor accumulated, folded into the frame's CallInfo.
FinalizeExecution(frame, failed, retdata, gas_consumed) ==
    [call |-> frame.call,
     execution |-> [retdata |-> retdata, events |-> frame.events,
                    l2_to_l1_messages |-> frame.l2_to_l1_messages,
                    failed |-> failed, gas_consumed |-> gas_consumed],
     inner_calls |-> frame.inner_calls,
     storage_read_values |-> frame.read_values,
     accessed_storage_keys |-> frame.accessed_keys]

(* ------------------------------ CallInfoIter --------------------------- *)

RECURSIVE PreOrder(_), PreOrderAll(_)

\* The frames CallInfoIter yields from `info`: the frame, then the traversal
\* of each of its inner calls, left to right.
PreOrder(info) == <<info>> \o PreOrderAll(info.inner_calls)

\* The traversals of the calls of `infos`, one after the other.
PreOrderAll(infos) ==
    IF infos = <<>> THEN <<>>
    ELSE PreOrder(Head(infos)) \o PreOrderAll(Tail(infos))

RECURSIVE Drain(_)

\* Mutant of Drain: the inner calls are pushed left to right, so the
\* rightmost is popped first.
DrainRightToLeft(call_infos) ==
    IF call_infos = <<>> THEN <<>>
    ELSE LET call_info == call_infos[Len(call_infos)]
             rest == SubSeq(call_infos, 1, Len(call_infos) - 1)
         IN  <<call_info>> \o Drain(rest \o call_info.inner_calls)

\* CallInfoIter::next until it returns None, from the stack `call_infos`
\* (its top is the last element): the frames it yields, in order.
Drain(call_infos) ==
    IF call_infos = <<>> THEN <<>>
    ELSE LET call_info == call_infos[Len(call_infos)]
             rest == SubSeq(call_infos, 1, Len(call_infos) - 1)
         IN  <<call_info>> \o Drain(rest \o Reverse(call_info.inner_calls))

\* (&CallInfo).into_iter(), iterated to the end.
IntoIter(info) == Drain(<<info>>)

(* --------------------------- functions of CallInfo -------------------- *)

\* get_executed_class_hashes: the set the loop inserts into; the expect
\* panics on a frame without class hash.
GetExecutedClassHashes(info) ==
    LET calls == IntoIter(info)
    IN  IF \E i \in 1 .. Len(calls) : calls[i].call.class_hash = NoneVal
        THEN [fn |-> "get_executed_class_hashes", kind |-> "Panic"]
        ELSE [fn |-> "get_executed_class_hashes", kind |-> "Ok",
              value |-> {calls[i].call.class_hash : i \in 1 .. Len(calls)}]

RECURSIVE NMessages(_)
\* get_sorted_l2_to_l1_payloads_length, line 305: the number of messages of
\* the frames.
NMessages(calls) ==
    IF calls = <<>> THEN 0
    ELSE Len(Head(calls).execution.l2_to_l1_messages) + NMessages(Tail(calls))

RECURSIVE AllMessages(_)
\* The messages the nested loops of lines 308-309 visit, in order.
AllMessages(calls) ==
    IF calls = <<>> THEN <<>>
    ELSE Head(calls).execution.l2_to_l1_messages \o AllMessages(Tail(calls))

RECURSIVE FillPayloadsLengthLastInvalid(_, _, _)
\* Mutant of FillPayloadsLength: the messages are visited last to first.
FillPayloadsLengthLastInvalid(messages, lengths, n_messages) ==
    IF messages = <<>> THEN [kind |-> "Ok", lengths |-> lengths]
    ELSE LET ordered_message_content == messages[Len(messages)]
             message_order == ordered_message_content.order
         IN  IF message_order >= n_messages
             THEN [kind |-> "Err", error |-> "InvalidOrder",
                   order |-> message_order, max_order |-> n_messages]
             ELSE FillPayloadsLengthLastInvalid(
                    SubSeq(messages, 1, Len(messages) - 1),
                    [lengths EXCEPT ![message_order + 1] =
                        Len(ordered_message_content.message.payload)],
                    n_messages)

RECURSIVE FillPayloadsLength(_, _, _)
\* get_sorted_l2_to_l1_payloads_length, lines 308-321: the vector of
\* Option<usize> after the loops (None is NoneVal), or InvalidOrder.
FillPayloadsLength(messages, lengths, n_messages) ==
    IF messages = <<>> THEN [kind |-> "Ok", lengths |-> lengths]
    ELSE LET ordered_message_content == Head(messages)
             message_order == ordered_message_content.order
         IN  IF message_order >= n_messages
             THEN [kind |-> "Err", error |-> "InvalidOrder",
                   order |-> message_order, max_order |-> n_messages]
             ELSE FillPayloadsLength(
                    Tail(messages),
                    [lengths EXCEPT ![message_order + 1] =
                        Len(ordered_message_content.message.payload)],
                    n_messages)

RECURSIVE CollectPayloadsLengthSkippingHoles(_, _, _)
\* Mutant of CollectPayloadsLength: an empty slot is skipped.
CollectPayloadsLengthSkippingHoles(lengths, i, acc) ==
    IF i >= Len(lengths) THEN [kind |-> "Ok", value |-> acc]
    ELSE IF lengths[i + 1] = NoneVal
    THEN CollectPayloadsLengthSkippingHoles(lengths, i + 1, acc)
    ELSE CollectPayloadsLengthSkippingHoles(lengths, i + 1, Append(acc, lengths[i + 1]))

RECURSIVE CollectPayloadsLength(_, _, _)
\* get_sorted_l2_to_l1_payloads_length, lines 323-335: the try_fold from
\* index i with accumulator acc.
CollectPayloadsLength(lengths, i, acc) ==
    IF i >= Len(lengths) THEN [kind |-> "Ok", value |-> acc]
    ELSE IF lengths[i + 1] = NoneVal
    THEN [kind |-> "Err", error |-> "UnexpectedHoles", order |-> i, max_order |-> 0]
    ELSE CollectPayloadsLength(lengths, i + 1, Append(acc, lengths[i + 1]))

\* get_sorted_l2_to_l1_payloads_length.
GetSortedL2ToL1PayloadsLength(info) ==
    LET n_messages == NMessages(IntoIter(info))
        filled == FillPayloadsLength(AllMessages(IntoIter(info)),
                                     [i \in 1 .. n_messages |-> NoneVal], n_messages)
        collected == CollectPayloadsLength(filled.lengths, 0, <<>>)
    IN  IF filled.kind = "Err"
        THEN [fn |-> "get_sorted_l2_to_l1_payloads_length", kind |-> "Err",
              error |-> filled.error, order |-> filled.order,
              max_order |-> filled.max_order]
        ELSE IF collected.kind = "Err"
        THEN [fn |-> "get_sorted_l2_to_l1_payloads_length", kind |-> "Err",
              error |-> collected.error, order |-> collected.order,
              max_order |-> 0]
        ELSE [fn |-> "get_sorted_l2_to_l1_payloads_length", kind |-> "Ok",
              value |-> collected.value]

(* ------------------------------- actions ------------------------------- *)

InitWith(versions) ==
    /\ context \in {NewContext(v, MaxNSteps) : v \in versions}
    /\ state = [a \in Addresses |-> [k \in StorageKeys |-> 0]]
    /\ stack = <<>>
    /\ ret = NoRet
    /\ result = NoRet
    /\ startDepth = 0
    /\ topCalls = 0
    /\ nOps = 0
    /\ lastResp = NoResponse
    /\ dispatched = DefaultCall
    /\ input = NoInput
    /\ output = NoOutput
    /\ resources = NewResources
    /\ hint = NoHint

\* The transaction driver calls execute on a root descriptor, with
\* ExecutionResources::default().
TopExecute(call) ==
    /\ stack = <<>>
    /\ ret.kind = "None"
    /\ topCalls < MaxTopCalls
    /\ topCalls' = topCalls + 1
    /\ startDepth' = context.current_recursion_depth
    /\ result' = NoRet
    /\ Dispatch(call, <<>>)
    /\ input' = NoInput
    /\ hint' = NoHint
    /\ resources' = NewResources
    /\ UNCHANGED <<state, nOps, lastResp, output>>

\* The VM run of the top frame ends and execute returns its CallInfo.
VmFinish(failed, retdata, gas_consumed) ==
    /\ Running
    /\ gas_consumed <= Top.call.initial_gas
    /\ context' = AfterRun(context)
    /\ ret' = OkRet(FinalizeExecution(Top, failed, retdata, gas_consumed))
    /\ stack' = SubSeq(stack, 1, Len(stack) - 1)
    /\ UNCHANGED <<state, result, startDepth, topCalls, nOps, lastResp,
                   dispatched, input, output, resources, hint>>

\* The VM run of the top frame fails by itself: with a VM error, or with an
\* error of another kind (no such entry point).
VmError(error) ==
    /\ Running
    /\ LET after == AfterFailedRun(context, Top, error, Len(stack))
       IN  /\ context' = after.context
           /\ ret' = after.ret
    /\ stack' = SubSeq(stack, 1, Len(stack) - 1)
    /\ hint' = NoHint
    /\ UNCHANGED <<state, result, startDepth, topCalls, nOps, lastResp,
                   dispatched, input, output, resources>>

\* ConstructorContext.
ConstructorContext(class_hash, code_address, storage_address, caller_address) ==
    [class_hash |-> class_hash,
     code_address |-> code_address,
     storage_address |-> storage_address,
     caller_address |-> caller_address]

\* Mutant of HandleEmptyConstructor: calldata is not validated.
HandleEmptyConstructorAnyCalldata(ctor_context, calldata, remaining_gas) ==
    OkRet([DefaultCallInfo EXCEPT !.call =
              CallEntryPoint(ctor_context.class_hash, ctor_context.code_address,
                             "Constructor", SelectorFromName("constructor"),
                             calldata, ctor_context.storage_address,
                             ctor_context.caller_address, "Call", remaining_gas)])

\* handle_empty_constructor.
HandleEmptyConstructor(ctor_context, calldata, remaining_gas) ==
    IF calldata # <<>>
    THEN InvalidExecutionInput("constructor_calldata")
    ELSE OkRet([DefaultCallInfo EXCEPT !.call =
                   CallEntryPoint(ctor_context.class_hash, ctor_context.code_address,
                                  "Constructor", SelectorFromName("constructor"),
                                  <<>>, ctor_context.storage_address,
                                  ctor_context.caller_address, "Call", remaining_gas)])

\* Mutant of ConstructorCall: the descriptor carries the class hash of the
\* constructor context.
ConstructorCallOfClass(ctor_context, calldata, remaining_gas) ==
    CallEntryPoint(ctor_context.class_hash, ctor_context.code_address, "Constructor",
                   ConstructorSelector(ctor_context.class_hash), calldata,
                   ctor_context.storage_address, ctor_context.caller_address,
                   "Call", remaining_gas)

\* execute_constructor_entry_point: the descriptor of the constructor call.
ConstructorCall(ctor_context, calldata, remaining_gas) ==
    CallEntryPoint(NoneVal, ctor_context.code_address, "Constructor",
                   ConstructorSelector(ctor_context.class_hash), calldata,
                   ctor_context.storage_address, ctor_context.caller_address,
                   "Call", remaining_gas)

\* The transaction driver calls execute_constructor_entry_point, with
\* ExecutionResources::default().
ExecuteConstructorEntryPoint(ctor_context, calldata, remaining_gas) ==
    /\ stack = <<>>
    /\ ret.kind = "None"
    /\ topCalls < MaxTopCalls
    /\ topCalls' = topCalls + 1
    /\ startDepth' = context.current_recursion_depth
    /\ result' = NoRet
    /\ input' = [fn |-> "execute_constructor_entry_point",
                 ctor_context |-> ctor_context, calldata |-> calldata,
                 remaining_gas |-> remaining_gas]
    /\ IF ctor_context.class_hash \notin DeclaredClasses
       THEN /\ ret' = ErrRet("UndeclaredClassHash", 0, <<>>, 0)
            /\ UNCHANGED <<context, stack, dispatched>>
       ELSE IF ConstructorSelector(ctor_context.class_hash) = NoneVal
       THEN /\ ret' = HandleEmptyConstructor(ctor_context, calldata, remaining_gas)
            /\ UNCHANGED <<context, stack, dispatched>>
       ELSE Dispatch(ConstructorCall(ctor_context, calldata, remaining_gas), <<>>)
    /\ hint' = NoHint
    /\ resources' = NewResources
    /\ UNCHANGED <<state, nOps, lastResp, output>>

\* RunResources::consumed: no step is left.
Consumed(n_steps) == n_steps = 0

\* RunResources::consume_step: one step less, none below zero.
RunResourcesConsumeStep(n_steps) == IF n_steps > 0 THEN n_steps - 1 ELSE 0

\* The VM runs one step of the top frame: it asks the frame's processor
\* whether the budget is consumed and, if not, has it consume a step.
ConsumeStep ==
    /\ Running
    /\ ~Consumed(context.vm_run_resources)
    /\ context' = [context EXCEPT
                        !.vm_run_resources = RunResourcesConsumeStep(@)]
    /\ input' = [fn |-> "consume_step", depth |-> Len(stack)]
    /\ UNCHANGED <<state, stack, ret, result, startDepth, topCalls, nOps,
                   lastResp, dispatched, output, resources, hint>>

\* Mutant of SubtractSteps: the subtraction is not capped, and wraps.
SubtractStepsUnchecked(ctx, steps_to_subtract) ==
    [ctx EXCEPT !.vm_run_resources = (@ - steps_to_subtract) % (USIZE_MAX + 1)]

\* subtract_steps.
SubtractSteps(ctx, steps_to_subtract) ==
    LET current_n_steps == ctx.vm_run_resources
        subtracted == Min(steps_to_subtract, current_n_steps)
    IN  [ctx EXCEPT !.vm_run_resources = current_n_steps - subtracted]

\* The driver calls subtract_steps between two top-level calls.
CallSubtractSteps(steps_to_subtract) ==
    /\ stack = <<>>
    /\ ret.kind = "None"
    /\ context' = SubtractSteps(context, steps_to_subtract)
    /\ input' = [fn |-> "subtract_steps", steps_to_subtract |-> steps_to_subtract]
    /\ UNCHANGED <<state, stack, ret, result, startDepth, topCalls, nOps,
                   lastResp, dispatched, output, resources, hint>>

\* new_invoke computes the step budget of the context it builds.
CallMaxInvokeSteps ==
    /\ input.fn = "max_invoke_steps"
    /\ output' = MaxInvokeSteps(input.max_fee, input.gas_price, input.gas_per_step,
                                input.invoke_tx_max_n_steps)
    /\ UNCHANGED <<context, state, stack, ret, result, startDepth, topCalls, nOps,
                   lastResp, dispatched, input, resources, hint>>

\* The driver iterates over the call tree it holds.
IterateCallInfo ==
    /\ result.kind = "Ok"
    /\ output' = [fn |-> "into_iter", kind |-> "Ok", value |-> IntoIter(result.info)]
    /\ UNCHANGED <<context, state, stack, ret, result, startDepth, topCalls, nOps,
                   lastResp, dispatched, input, resources, hint>>

\* The driver asks for the class hashes executed in the call tree it holds.
CallGetExecutedClassHashes ==
    /\ result.kind = "Ok"
    /\ output' = GetExecutedClassHashes(result.info)
    /\ UNCHANGED <<context, state, stack, ret, result, startDepth, topCalls, nOps,
                   lastResp, dispatched, input, resources, hint>>

\* The driver asks for the payload lengths of the messages of the call tree
\* it holds.
CallGetSortedL2ToL1PayloadsLength ==
    /\ result.kind = "Ok"
    /\ output' = GetSortedL2ToL1PayloadsLength(result.info)
    /\ UNCHANGED <<context, state, stack, ret, result, startDepth, topCalls, nOps,
                   lastResp, dispatched, input, resources, hint>>

\* The top-level execute hands its result to the driver.
TopReturn ==
    /\ stack = <<>>
    /\ ret.kind # "None"
    /\ result' = ret
    /\ ret' = NoRet
    /\ UNCHANGED <<context, state, stack, startDepth, topCalls, nOps, lastResp,
                   dispatched, input, output, resources, hint>>

(* ------------------------- the syscall hint processor ------------------ *)

\* A syscall request as the contract wrote it to VM memory: the selector and
\* the request body (EmitEvent and SendMessageToL1 carry no argument here;
\* StorageRead a key; StorageWrite a key and a value; CallContract an address;
\* LibraryCall a class hash).
Request(selector, arg, value) == [selector |-> selector, arg |-> arg, value |-> value]

Requests ==
    {Request("EmitEvent", 0, 0), Request("SendMessageToL1", 0, 0)}
    \cup {Request("StorageRead", k, 0) : k \in StorageKeys}
    \cup {Request("StorageWrite", k, v) : k \in StorageKeys, v \in StorageValues}
    \cup {Request("CallContract", a, 0) : a \in Addresses}
    \cup {Request("LibraryCall", c, 0) : c \in ClassHashes}

\* The base gas cost execute_next_syscall passes for each selector.
BaseGasCost(selector) ==
    CASE selector = "CallContract" -> 1
      [] selector = "EmitEvent" -> 1
      [] selector = "LibraryCall" -> 1
      [] selector = "SendMessageToL1" -> 1
      [] selector = "StorageRead" -> 1
      [] selector = "StorageWrite" -> 2
      [] selector = "Keccak" -> 1
      [] selector = "Secp256k1Add" -> 1
      [] selector = "Secp256k1GetXy" -> 1
      [] selector = "Secp256k1New" -> 1

\* Cells of the request body SyscallRequestWrapper::read reads after the gas
\* counter.
RequestBodySize(selector) ==
    CASE selector = "CallContract" -> 4
      [] selector = "EmitEvent" -> 4
      [] selector = "LibraryCall" -> 4
      [] selector = "SendMessageToL1" -> 3
      [] selector = "StorageRead" -> 2
      [] selector = "StorageWrite" -> 3
      [] selector = "Keccak" -> 2
      [] selector = "Secp256k1Add" -> 2
      [] selector = "Secp256k1GetXy" -> 1
      [] selector = "Secp256k1New" -> 4

\* Cells of the response body a Success response writes after its header.
ResponseBodySize(selector) ==
    CASE selector = "CallContract" -> 2
      [] selector = "EmitEvent" -> 0
      [] selector = "LibraryCall" -> 2
      [] selector = "SendMessageToL1" -> 0
      [] selector = "StorageRead" -> 1
      [] selector = "StorageWrite" -> 0
      [] selector = "Keccak" -> 2
      [] selector = "Secp256k1Add" -> 1
      [] selector = "Secp256k1GetXy" -> 4
      [] selector = "Secp256k1New" -> 2

\* Cells SyscallResponseWrapper::write writes: the gas counter, the failure
\* flag, then the response body or the bounds of the error data.
ResponseSize(kind, selector) ==
    IF kind = "Success" THEN 2 + ResponseBodySize(selector) ELSE 4

\* Mutant of VerifySyscallPtr: every pointer passes.
VerifySyscallPtrAnyPointer(frame, actual_ptr) == TRUE

\* verify_syscall_ptr.
VerifySyscallPtr(frame, actual_ptr) == actual_ptr = frame.syscall_ptr

\* read_next_syscall_selector.
ReadSelector(frame) == [frame EXCEPT !.syscall_ptr = @ + 1]

\* SyscallRequestWrapper::read(vm, &mut self.syscall_ptr).
ReadRequest(frame, selector) ==
    [frame EXCEPT !.syscall_ptr = @ + 1 + RequestBodySize(selector)]

\* Mutant of WriteResponse: a Failure response does not move syscall_ptr.
WriteResponseFailureInPlace(frame, kind, selector, ptr_start) ==
    [frame EXCEPT !.syscall_ptr =
                      IF kind = "Success" THEN @ + ResponseSize(kind, selector) ELSE @,
                  !.answered = [kind |-> kind, selector |-> selector,
                                ptr_start |-> ptr_start]]

\* response.write(vm, &mut self.syscall_ptr).
WriteResponse(frame, kind, selector, ptr_start) ==
    [frame EXCEPT !.syscall_ptr = @ + ResponseSize(kind, selector),
                  !.answered = [kind |-> kind, selector |-> selector,
                                ptr_start |-> ptr_start]]

\* execute_syscall, line 299.
IsOutOfGas(gas_counter, base_gas_cost) == gas_counter < base_gas_cost

\* Mutant of OutOfGasResponse: the out-of-gas response reports no gas left.
OutOfGasResponseDrained(gas_counter) ==
    [kind |-> "Failure", gas_counter |-> 0,
     error_data |-> <<OUT_OF_GAS_ERROR>>]

\* execute_syscall, lines 301-304.
OutOfGasResponse(gas_counter) ==
    [kind |-> "Failure", gas_counter |-> gas_counter,
     error_data |-> <<OUT_OF_GAS_ERROR>>]

\* Mutant of CallbackResponse: a SyscallError is answered like a response.
CallbackResponseAlwaysSuccess(outcome, remaining_gas, error_data) ==
    [kind |-> "Success", gas_counter |-> remaining_gas, error_data |-> <<>>]

\* execute_syscall, lines 313-319.
CallbackResponse(outcome, remaining_gas, error_data) ==
    IF outcome = "Ok"
    THEN [kind |-> "Success", gas_counter |-> remaining_gas, error_data |-> <<>>]
    ELSE [kind |-> "Failure", gas_counter |-> remaining_gas, error_data |-> error_data]

\* The response as the caller reads it from VM memory.
Written(response, request, gas_counter, level, value) ==
    [seq |-> nOps + 1, kind |-> response.kind, selector |-> request.selector,
     request_gas |-> gas_counter, gas_counter |-> response.gas_counter,
     error_data |-> response.error_data, level |-> level, arg |-> request.arg,
     value |-> value]

\* emit_event.
EmitEvent(frame, ctx, payload) ==
    [frame |-> [frame EXCEPT !.events =
                    Append(@, [order |-> ctx.n_emitted_events, event |-> payload])],
     context |-> [ctx EXCEPT !.n_emitted_events = @ + 1]]

\* send_message_to_l1.
SendMessageToL1(frame, ctx, payload) ==
    [frame |-> [frame EXCEPT !.l2_to_l1_messages =
                    Append(@, [order |-> ctx.n_sent_messages_to_l1,
                               message |-> [to_address |-> 0, payload |-> <<payload>>]])],
     context |-> [ctx EXCEPT !.n_sent_messages_to_l1 = @ + 1]]

\* get_contract_storage_at: the value read, which is the response.
StorageReadResponse(frame, st, key) == st[frame.call.storage_address][key]

\* Mutant of GetContractStorageAt: a read leaves no trace in accessed_keys.
GetContractStorageAtUntracked(frame, st, key) ==
    [frame EXCEPT !.read_values = Append(@, StorageReadResponse(frame, st, key))]

\* get_contract_storage_at: the processor.
GetContractStorageAt(frame, st, key) ==
    [frame EXCEPT !.accessed_keys = @ \cup {key},
                  !.read_values = Append(@, StorageReadResponse(frame, st, key))]

\* set_contract_storage_at: the processor.
SetContractStorageAtFrame(frame, key) ==
    [frame EXCEPT !.accessed_keys = @ \cup {key}]

\* set_contract_storage_at: the state.
SetContractStorageAt(frame, st, key, value) ==
    [st EXCEPT ![frame.call.storage_address][key] = value]

\* call_contract: the descriptor of the inner call.
CallContractEntryPoint(frame, address, remaining_gas) ==
    CallEntryPoint(NoneVal, address, "External", SelectorFromName("__execute__"),
                   <<>>, address, frame.call.storage_address, "Call", remaining_gas)

\* Mutant of LibraryCallEntryPoint: the caller of the inner call is the
\* calling contract, as in call_contract.
LibraryCallEntryPointCallerIsFrame(frame, class_hash, remaining_gas) ==
    CallEntryPoint(class_hash, NoneVal, "External", SelectorFromName("__execute__"),
                   <<>>, frame.call.storage_address, frame.call.storage_address,
                   "Delegate", remaining_gas)

\* execute_library_call: the descriptor of the inner call.
LibraryCallEntryPoint(frame, class_hash, remaining_gas) ==
    CallEntryPoint(class_hash, NoneVal, "External", SelectorFromName("__execute__"),
                   <<>>, frame.call.storage_address, frame.call.caller_address,
                   "Delegate", remaining_gas)

\* update_remaining_gas.
UpdateRemainingGas(remaining_gas, info) ==
    remaining_gas - info.execution.gas_consumed

\* execute_inner_call after call.execute returned Ok(info): the frame, the
\* remaining gas and the outcome of the callback.
ExecuteInnerCall(frame, remaining_gas, info) ==
    IF info.execution.failed
    THEN [frame |-> frame, remaining_gas |-> remaining_gas,
          outcome |-> "SyscallError", error_data |-> info.execution.retdata]
    ELSE [frame |-> [frame EXCEPT !.inner_calls = Append(@, info)],
          remaining_gas |-> UpdateRemainingGas(remaining_gas, info),
          outcome |-> "Ok", error_data |-> <<>>]

\* increment_syscall_count_by.
IncrementSyscallCountBy(res, selector, n) ==
    [res EXCEPT !.syscall_counter[selector] = @ + n]

\* increment_syscall_count.
IncrementSyscallCount(res, selector) == IncrementSyscallCountBy(res, selector, 1)

\* Mutant of CountSyscall: Keccak is counted like every other selector.
CountSyscallEverySelector(res, selector) == IncrementSyscallCount(res, selector)

\* execute_next_syscall, lines 206-208.
CountSyscall(res, selector) ==
    IF selector # "Keccak" THEN IncrementSyscallCount(res, selector) ELSE res

\* The selectors execute_next_syscall has a match arm for.
SupportedSelectors == SyscallSelectors \ {"GetCallerAddress"}

\* Mutant of RemainingGas: the base gas cost is not charged.
RemainingGasUncharged(gas_counter, base_gas_cost) == gas_counter

\* execute_syscall, line 311.
RemainingGas(gas_counter, base_gas_cost) == gas_counter - base_gas_cost

\* A syscall hint returned a hint error to the VM: the error, the input it
\* names if it is InvalidSyscallInput, the pointer the hint carried, the
\* processor's syscall_ptr when the hint began, and the processor, which is
\* dropped with the frame, as the hint left it.
HintErr(error, selector, input_felt, expected_ptr, actual_ptr, processor) ==
    [error |-> error, selector |-> selector, input |-> input_felt,
     expected_ptr |-> expected_ptr, actual_ptr |-> actual_ptr,
     processor |-> processor]

\* What a selector callback returned, and what it left behind: Ok(response),
\* Err(SyscallError { error_data }) or another error.
CallbackOk(frame, ctx, st, res, remaining_gas, value) ==
    [outcome |-> "Ok", error |-> "None", error_data |-> <<>>, value |-> value,
     input |-> 0,
     frame |-> frame, context |-> ctx, state |-> st, resources |-> res,
     remaining_gas |-> remaining_gas]

CallbackSyscallError(frame, ctx, st, res, remaining_gas, error_data) ==
    [outcome |-> "SyscallError", error |-> "SyscallError", error_data |-> error_data,
     value |-> 0, input |-> 0, frame |-> frame, context |-> ctx, state |-> st, resources |-> res,
     remaining_gas |-> remaining_gas]

CallbackError(frame, ctx, st, res, remaining_gas, error, input_felt) ==
    [outcome |-> "Err", error |-> error, error_data |-> <<>>, value |-> 0,
     input |-> input_felt,
     frame |-> frame, context |-> ctx, state |-> st, resources |-> res,
     remaining_gas |-> remaining_gas]

\* Felt252::to_usize: None for a felt beyond usize.
ToUsize(felt) == IF felt <= USIZE_MAX THEN felt ELSE NoneVal

\* Mutant of AllocateSecp256k1Point: the new point takes the place of the
\* last one.
AllocateSecp256k1PointInPlace(frame, ec_point) ==
    IF frame.secp256k1_points = <<>>
    THEN [frame |-> [frame EXCEPT !.secp256k1_points = <<ec_point>>], id |-> 0]
    ELSE [frame |-> [frame EXCEPT
                        !.secp256k1_points[Len(frame.secp256k1_points)] = ec_point],
          id |-> Len(frame.secp256k1_points) - 1]

\* allocate_secp256k1_point: the processor, and the id returned.
AllocateSecp256k1Point(frame, ec_point) ==
    [frame |-> [frame EXCEPT !.secp256k1_points = Append(@, ec_point)],
     id |-> Len(frame.secp256k1_points)]

\* get_secp256k1_point_by_id.
GetSecp256k1PointById(frame, ec_point_id) ==
    IF ToUsize(ec_point_id) # NoneVal /\ ToUsize(ec_point_id) < Len(frame.secp256k1_points)
    THEN [kind |-> "Ok", point |-> frame.secp256k1_points[ToUsize(ec_point_id) + 1]]
    ELSE [kind |-> "Err", error |-> "InvalidSyscallInput", input |-> ec_point_id]

\* secp256k1_new: a point of the curve is allocated and its id returned;
\* for coordinates that are not a point of the curve the response is None.
Secp256k1New(frame, res, ec_point, remaining_gas) ==
    IF ec_point \notin Secp256k1Points
    THEN CallbackOk(frame, context, state, res, remaining_gas, NoneVal)
    ELSE LET allocated == AllocateSecp256k1Point(frame, ec_point)
         IN  CallbackOk(allocated.frame, context, state, res, remaining_gas,
                        allocated.id)

\* secp256k1_add: both points are looked up, their sum is allocated.
Secp256k1Add(frame, res, lhs_id, rhs_id, remaining_gas) ==
    LET lhs == GetSecp256k1PointById(frame, lhs_id)
        rhs == GetSecp256k1PointById(frame, rhs_id)
    IN  IF lhs.kind = "Err" \/ rhs.kind = "Err"
        THEN CallbackError(frame, context, state, res, remaining_gas,
                           "InvalidSyscallInput",
                           IF lhs.kind = "Err" THEN lhs.input ELSE rhs.input)
        ELSE LET allocated ==
                    AllocateSecp256k1Point(frame, Secp256k1Sum(lhs.point, rhs.point))
             IN  CallbackOk(allocated.frame, context, state, res, remaining_gas,
                            allocated.id)

\* secp256k1_get_xy: the point is looked up and returned.
Secp256k1GetXy(frame, res, ec_point_id, remaining_gas) ==
    LET found == GetSecp256k1PointById(frame, ec_point_id)
    IN  IF found.kind = "Err"
        THEN CallbackError(frame, context, state, res, remaining_gas,
                           "InvalidSyscallInput", found.input)
        ELSE CallbackOk(frame, context, state, res, remaining_gas, found.point)

\* keccak: an input that is not a whole number of blocks, or whose rounds
\* cost more than the remaining gas, is a SyscallError; otherwise the rounds
\* are charged and counted.
Keccak(frame, res, input_length, remaining_gas) ==
    LET n_rounds == input_length \div KECCAK_FULL_RATE_IN_WORDS
        gas_cost == n_rounds * KECCAK_ROUND_COST_GAS_COST
    IN  IF input_length % KECCAK_FULL_RATE_IN_WORDS # 0
        THEN CallbackSyscallError(frame, context, state, res, remaining_gas,
                                  <<INVALID_INPUT_LENGTH_ERROR>>)
        ELSE IF gas_cost > remaining_gas
        THEN CallbackSyscallError(frame, context, state, res, remaining_gas,
                                  <<OUT_OF_GAS_ERROR>>)
        ELSE CallbackOk(frame, context, state,
                        IncrementSyscallCountBy(res, "Keccak", n_rounds),
                        remaining_gas - gas_cost, 0)

\* The selector callback execute_syscall invokes, for the selectors that
\* are answered without an inner call.
Callback(request, frame, res, remaining_gas) ==
    CASE request.selector = "EmitEvent" ->
            LET emitted == EmitEvent(frame, context, nOps + 1)
            IN  CallbackOk(emitted.frame, emitted.context, state, res,
                           remaining_gas, 0)
      [] request.selector = "SendMessageToL1" ->
            LET sent == SendMessageToL1(frame, context, nOps + 1)
            IN  CallbackOk(sent.frame, sent.context, state, res,
                           remaining_gas, 0)
      [] request.selector = "StorageRead" ->
            CallbackOk(GetContractStorageAt(frame, state, request.arg), context,
                       state, res, remaining_gas,
                       StorageReadResponse(frame, state, request.arg))
      [] request.selector = "StorageWrite" ->
            CallbackOk(SetContractStorageAtFrame(frame, request.arg), context,
                       SetContractStorageAt(frame, state, request.arg, request.value),
                       res, remaining_gas, 0)
      [] request.selector = "Keccak" -> Keccak(frame, res, request.arg, remaining_gas)
      [] request.selector = "Secp256k1New" ->
            Secp256k1New(frame, res, request.arg, remaining_gas)
      [] request.selector = "Secp256k1Add" ->
            Secp256k1Add(frame, res, request.arg, request.value, remaining_gas)
      [] request.selector = "Secp256k1GetXy" ->
            Secp256k1GetXy(frame, res, request.arg, remaining_gas)

ReplaceTop(frame) == [stack EXCEPT ![Len(stack)] = frame]

\* A hint error ends the VM run of the top frame, which `frame` is as the
\* hint left it, and execute returns the VM error with its trace.
HintFails(frame, ctx, error, selector, input_felt, actual_ptr) ==
    LET after == AfterFailedRun(ctx, frame, "VirtualMachineExecutionError", Len(stack))
    IN  /\ context' = after.context
        /\ ret' = after.ret
        /\ stack' = SubSeq(stack, 1, Len(stack) - 1)
        /\ hint' = HintErr(error, selector, input_felt, Top.syscall_ptr, actual_ptr,
                           frame)

\* The selectors answered without an inner call, and the one without a
\* match arm.
LocalSelectors ==
    {"EmitEvent", "SendMessageToL1", "StorageRead", "StorageWrite", "Keccak",
     "Secp256k1New", "Secp256k1Add", "Secp256k1GetXy", "GetCallerAddress"}

\* execute_next_syscall on a hint whose pointer is the expected one, for a
\* selector answered without an inner call.
ExecuteSyscall(request, gas_counter, actual_ptr) ==
    /\ Running
    /\ VerifySyscallPtr(Top, actual_ptr)
    /\ request.selector \in LocalSelectors
    /\ nOps' = nOps + 1
    /\ LET selector == request.selector
           ptr_start == actual_ptr
           selected == ReadSelector(Top)
           counted == CountSyscall(resources, selector)
           read == ReadRequest(selected, selector)
       IN  IF selector \notin SupportedSelectors
           THEN /\ HintFails(selected, context, "UnknownHint", selector, 0, actual_ptr)
                /\ resources' = counted
                /\ UNCHANGED <<state, lastResp>>
           ELSE IF IsOutOfGas(gas_counter, BaseGasCost(selector))
           THEN LET answered == WriteResponse(read, "Failure", selector, ptr_start)
                IN  /\ stack' = ReplaceTop(answered)
                    /\ lastResp' = Written(OutOfGasResponse(gas_counter), request,
                                           gas_counter, Len(stack), 0)
                    /\ resources' = counted
                    /\ UNCHANGED <<context, state, ret, hint>>
           ELSE LET remaining_gas == RemainingGas(gas_counter, BaseGasCost(selector))
                    called == Callback(request, read, counted, remaining_gas)
                    response == CallbackResponse(called.outcome, called.remaining_gas,
                                                 called.error_data)
                    answered == WriteResponse(called.frame, response.kind, selector,
                                              ptr_start)
                IN  IF called.outcome = "Err"
                    THEN /\ HintFails(called.frame, called.context, called.error,
                                      selector, called.input, actual_ptr)
                         /\ state' = called.state
                         /\ resources' = called.resources
                         /\ UNCHANGED lastResp
                    ELSE /\ stack' = ReplaceTop(answered)
                         /\ context' = called.context
                         /\ state' = called.state
                         /\ resources' = called.resources
                         /\ lastResp' = Written(response, request, gas_counter,
                                                Len(stack), called.value)
                         /\ UNCHANGED <<ret, hint>>
    /\ UNCHANGED <<result, startDepth, topCalls, dispatched, input, output>>

\* execute_next_syscall on a hint whose pointer is the expected one, for
\* CallContract and LibraryCall: out of gas, or up to the inner execute.
ExecuteCallSyscall(request, gas_counter, actual_ptr) ==
    /\ Running
    /\ VerifySyscallPtr(Top, actual_ptr)
    /\ request.selector \in {"CallContract", "LibraryCall"}
    /\ nOps' = nOps + 1
    /\ LET selector == request.selector
           ptr_start == actual_ptr
           read == ReadRequest(ReadSelector(Top), selector)
           answered == WriteResponse(read, "Failure", selector, ptr_start)
       IN  IF IsOutOfGas(gas_counter, BaseGasCost(selector))
           THEN /\ stack' = ReplaceTop(answered)
                /\ lastResp' = Written(OutOfGasResponse(gas_counter), request,
                                       gas_counter, Len(stack), 0)
                /\ UNCHANGED <<context, ret, dispatched, hint>>
           ELSE LET remaining_gas == RemainingGas(gas_counter, BaseGasCost(selector))
                    waiting == [read EXCEPT !.pending =
                                   [active |-> TRUE, seq |-> nOps + 1,
                                    selector |-> selector,
                                    arg |-> request.arg,
                                    gas_counter |-> gas_counter,
                                    remaining_gas |-> remaining_gas,
                                    ptr_start |-> ptr_start]]
                    call == IF selector = "CallContract"
                            THEN CallContractEntryPoint(read, request.arg, remaining_gas)
                            ELSE LibraryCallEntryPoint(read, request.arg, remaining_gas)
                IN  /\ Dispatch(call, ReplaceTop(waiting))
                    /\ UNCHANGED <<lastResp, hint>>
    /\ resources' = CountSyscall(resources, request.selector)
    /\ UNCHANGED <<state, result, startDepth, topCalls, input, output>>

\* The inner execute returned to execute_inner_call: the rest of the
\* callback and of execute_syscall, or, on an error, the end of the frame's
\* VM run and of its execute.
InnerReturn ==
    /\ stack # <<>>
    /\ ret.kind # "None"
    /\ LET frame == Top
           p == frame.pending
           resumed == [frame EXCEPT !.pending = NoPending]
       IN  IF ret.kind = "Ok"
           THEN LET inner == ExecuteInnerCall(resumed, p.remaining_gas, ret.info)
                    response == CallbackResponse(inner.outcome, inner.remaining_gas,
                                                 inner.error_data)
                    answered == WriteResponse(inner.frame, response.kind,
                                              p.selector, p.ptr_start)
                IN  /\ stack' = ReplaceTop(answered)
                    /\ UNCHANGED hint
                    /\ lastResp' =
                        [seq |-> p.seq, kind |-> response.kind, selector |-> p.selector,
                         request_gas |-> p.gas_counter,
                         gas_counter |-> response.gas_counter,
                         error_data |-> response.error_data, level |-> Len(stack),
                         arg |-> 0, value |-> 0]
                    /\ ret' = NoRet
                    /\ UNCHANGED context
           ELSE LET after == AfterFailedRun(context, frame,
                                            "VirtualMachineExecutionError", ret.at)
                IN  /\ context' = after.context
                    /\ ret' = after.ret
                    /\ stack' = SubSeq(stack, 1, Len(stack) - 1)
                    /\ hint' = NoHint
                    /\ UNCHANGED lastResp
    /\ UNCHANGED <<state, result, startDepth, topCalls, nOps, dispatched,
                   input, output, resources>>

\* A syscall hint whose pointer is not the processor's syscall_ptr:
\* BadSyscallPointer ends the frame's VM run with a VM error.
BadPointerHint(actual_ptr) ==
    /\ Running
    /\ ~VerifySyscallPtr(Top, actual_ptr)
    /\ LET after == AfterFailedRun(context, Top, "VirtualMachineExecutionError",
                                   Len(stack))
       IN  /\ context' = after.context
           /\ ret' = after.ret
    /\ stack' = SubSeq(stack, 1, Len(stack) - 1)
    /\ hint' = HintErr("BadSyscallPointer", "None", 0, Top.syscall_ptr, actual_ptr,
                       Top)
    /\ UNCHANGED <<state, result, startDepth, topCalls, nOps, lastResp,
                   dispatched, input, output, resources>>

(* ------------------------------ the inputs ----------------------------- *)

\* Root descriptors of the driver: the class hash is deduced from the storage
\* address, or given.
RootCall(class_hash, storage_address) ==
    CallEntryPoint(class_hash, NoneVal, "External", SelectorFromName("__execute__"),
                   <<>>, storage_address, 0, "Call", MaxGas)

RootCalls ==
    {RootCall(NoneVal, a) : a \in Addresses} \cup {RootCall(1, 3)}

GasCounters == 0 .. MaxGas

\* The pointer a hint carries: the expected one, or one cell off.
ExpectedPtr == IF stack = <<>> THEN 0 ELSE Top.syscall_ptr

Pointers == {ExpectedPtr, ExpectedPtr + 1}

\* VM errors, and an error of another kind, a frame's run may end with.
RunErrors == {"VirtualMachineExecutionError", "EntryPointNotFound"}

\* How a frame's run may end normally: success, or failure with retdata.
Endings == {<<FALSE, <<>>>>, <<TRUE, <<57005>>>>}

(* --------------------- specification: the dispatcher ------------------- *)

\* An event, a write, a call to every address, and library calls of the
\* faulty class and of the undeclared one.
DispatchRequests ==
    {Request("EmitEvent", 0, 0), Request("StorageWrite", 1, 1)}
    \cup {Request("CallContract", a, 0) : a \in Addresses}
    \cup {Request("LibraryCall", c, 0) : c \in ClassHashes \ {1}}

Init == InitWith({0, 1})

Next ==
    \/ \E call \in RootCalls : TopExecute(call)
    \/ /\ nOps < MaxDispatchOps
       /\ \E request \in DispatchRequests : ExecuteSyscall(request, MaxGas, ExpectedPtr)
    \/ /\ nOps < MaxDispatchOps
       /\ \E request \in DispatchRequests : ExecuteCallSyscall(request, MaxGas, ExpectedPtr)
    \/ InnerReturn
    \/ VmFinish(FALSE, <<>>, 0)
    \/ \E error \in RunErrors : VmError(error)
    \/ TopReturn

Spec == Init /\ [][Next]_vars

(* --------------------- specification: the emissions -------------------- *)

EmissionRequests ==
    {Request("EmitEvent", 0, 0), Request("SendMessageToL1", 0, 0),
     Request("CallContract", 1, 0), Request("LibraryCall", 1, 0)}

InitEmissions == InitWith({1})

NextEmissions ==
    \/ /\ topCalls = 0
       /\ TopExecute(RootCall(NoneVal, 1))
    \/ /\ nOps < MaxOps
       /\ \E request \in EmissionRequests : ExecuteSyscall(request, MaxGas, ExpectedPtr)
    \/ /\ nOps < MaxOps
       /\ \E request \in EmissionRequests : ExecuteCallSyscall(request, MaxGas, ExpectedPtr)
    \/ InnerReturn
    \/ \E ending \in Endings : VmFinish(ending[1], ending[2], 0)
    \/ TopReturn

SpecEmissions == InitEmissions /\ [][NextEmissions]_vars

(* -------------------- specification: the gas protocol ------------------ *)

GasRequests ==
    {Request("EmitEvent", 0, 0), Request("SendMessageToL1", 0, 0),
     Request("StorageRead", 1, 0), Request("StorageWrite", 1, 1),
     Request("CallContract", 1, 0), Request("LibraryCall", 1, 0)}

InitGas == InitWith({1})

NextGas ==
    \/ /\ topCalls = 0
       /\ TopExecute(RootCall(NoneVal, 1))
    \/ /\ nOps < MaxGasOps
       /\ \E request \in GasRequests, gas \in GasCounters, ptr \in Pointers :
            ExecuteSyscall(request, gas, ptr)
    \/ /\ nOps < MaxGasOps
       /\ \E request \in GasRequests, gas \in GasCounters, ptr \in Pointers :
            ExecuteCallSyscall(request, gas, ptr)
    \/ \E ptr \in Pointers : BadPointerHint(ptr)
    \/ InnerReturn
    \/ \E failed \in BOOLEAN, retdata \in Retdatas, gas \in GasCounters :
            VmFinish(failed, retdata, gas)
    \/ TopReturn

SpecGas == InitGas /\ [][NextGas]_vars

(* -------------------- specification: the constructor ------------------- *)

\* Constructor contexts of the driver: class 1 exposes a constructor, class 3
\* is undeclared, class 4 exposes none; address 1 stores class 1, address 2
\* another class, address 3 none.
ConstructorContexts ==
    {ConstructorContext(c, a, a, 0) : c \in {1, 3, 4}, a \in Addresses}

Calldatas == {<<>>, <<1>>}

ConstructorRequests ==
    {Request("EmitEvent", 0, 0), Request("CallContract", 1, 0),
     Request("LibraryCall", FaultyClassHash, 0), Request("LibraryCall", 1, 0)}

InitConstructor == InitWith({0, 1})

NextConstructor ==
    \/ \E ctor_context \in ConstructorContexts, calldata \in Calldatas :
            ExecuteConstructorEntryPoint(ctor_context, calldata, MaxGas)
    \/ \E call \in RootCalls : TopExecute(call)
    \/ /\ nOps < MaxConstructorOps
       /\ \E request \in ConstructorRequests :
            ExecuteSyscall(request, MaxGas, ExpectedPtr)
    \/ /\ nOps < MaxConstructorOps
       /\ \E request \in ConstructorRequests :
            ExecuteCallSyscall(request, MaxGas, ExpectedPtr)
    \/ InnerReturn
    \/ VmFinish(FALSE, <<>>, 0)
    \/ TopReturn

SpecConstructor == InitConstructor /\ [][NextConstructor]_vars

(* ---------------------- specification: the storage --------------------- *)

\* Reads and writes of two keys, and calls that run a second frame on the
\* same storage.
StorageRequests ==
    {Request("StorageRead", k, 0) : k \in StorageKeys}
    \cup {Request("StorageWrite", k, 1) : k \in StorageKeys}
    \cup {Request("CallContract", 1, 0), Request("LibraryCall", 1, 0)}

\* A gas counter below every base cost, and one above.
StorageGasCounters == {0, MaxGas}

InitStorage == InitWith({1})

NextStorage ==
    \/ /\ topCalls = 0
       /\ TopExecute(RootCall(NoneVal, 1))
    \/ /\ nOps < MaxStorageOps
       /\ \E request \in StorageRequests, gas \in StorageGasCounters :
            ExecuteSyscall(request, gas, ExpectedPtr)
    \/ /\ nOps < MaxStorageOps
       /\ \E request \in StorageRequests :
            ExecuteCallSyscall(request, MaxGas, ExpectedPtr)
    \/ InnerReturn
    \/ VmFinish(FALSE, <<>>, 0)
    \/ TopReturn

SpecStorage == InitStorage /\ [][NextStorage]_vars

(* --------------------- specification: the call trees ------------------- *)

\* L2ToL1Payload of 0, 1 and 2 felts.
Payloads == {<<>>, <<1>>, <<1, 2>>}

TreeMessages ==
    {[order |-> o, message |-> [to_address |-> 0, payload |-> p]] :
        o \in 0 .. MaxOrder, p \in Payloads}

\* The message lists of a frame, of at most n messages.
MessageLists(n) == UNION {[1 .. k -> TreeMessages] : k \in 0 .. n}

TreeClassHashes == {1, FaultyClassHash}

\* A CallInfo with the given class hash, messages and inner calls.
TreeNode(class_hash, messages, inner_calls) ==
    [DefaultCallInfo EXCEPT !.call.class_hash = class_hash,
                            !.execution.l2_to_l1_messages = messages,
                            !.inner_calls = inner_calls]

\* The driver holds a call tree of one, two or three frames: a frame alone,
\* a frame with one inner call, with two inner calls, or with an inner call
\* that has one.  The root runs class 1, the next frame class 1 or the
\* faulty class, the third frame class 4.
InitTrees ==
    /\ context = NewContext(1, MaxNSteps)
    /\ state = [a \in Addresses |-> [k \in StorageKeys |-> 0]]
    /\ stack = <<>>
    /\ ret = NoRet
    /\ \/ \E ms \in MessageLists(2) : result = OkRet(TreeNode(1, ms, <<>>))
       \/ \E c2 \in TreeClassHashes, ms1 \in MessageLists(2), ms2 \in MessageLists(1) :
            result = OkRet(TreeNode(1, ms1, <<TreeNode(c2, ms2, <<>>)>>))
       \/ \E c2 \in TreeClassHashes, ms1 \in MessageLists(1),
             ms2 \in MessageLists(1), ms3 \in MessageLists(1) :
            result = OkRet(TreeNode(1, ms1, <<TreeNode(c2, ms2, <<>>),
                                             TreeNode(4, ms3, <<>>)>>))
       \/ \E c2 \in TreeClassHashes, ms1 \in MessageLists(1),
             ms2 \in MessageLists(1), ms3 \in MessageLists(1) :
            result = OkRet(TreeNode(1, ms1, <<TreeNode(c2, ms2,
                                                <<TreeNode(4, ms3, <<>>)>>)>>))
    /\ startDepth = 0
    /\ topCalls = 1
    /\ nOps = 0
    /\ lastResp = NoResponse
    /\ dispatched = DefaultCall
    /\ input = NoInput
    /\ output = NoOutput
    /\ resources = NewResources
    /\ hint = NoHint

NextTrees ==
    \/ IterateCallInfo
    \/ CallGetExecutedClassHashes
    \/ CallGetSortedL2ToL1PayloadsLength

SpecTrees == InitTrees /\ [][NextTrees]_vars

(* -------------------- specification: the step budget ------------------- *)

\* vm_resource_fee_cost["n_steps"]: 0, 1/2, 1 and 2 gas per step.
GasPerStep ==
    {[num |-> 0, den |-> 1], [num |-> 1, den |-> 2], [num |-> 1, den |-> 1],
     [num |-> 2, den |-> 1]}

\* A block context and an account transaction context are given.
InitSteps ==
    /\ context = NewContext(1, MaxNSteps)
    /\ state = [a \in Addresses |-> [k \in StorageKeys |-> 0]]
    /\ stack = <<>>
    /\ ret = NoRet
    /\ result = NoRet
    /\ startDepth = 0
    /\ topCalls = 0
    /\ nOps = 0
    /\ lastResp = NoResponse
    /\ dispatched = DefaultCall
    /\ \E max_fee \in 0 .. MaxFee, gas_price \in 0 .. MaxGasPrice,
          gas_per_step \in GasPerStep, invoke_tx_max_n_steps \in 0 .. MaxInvokeTxSteps :
            input = [fn |-> "max_invoke_steps", max_fee |-> max_fee,
                     gas_price |-> gas_price, gas_per_step |-> gas_per_step,
                     invoke_tx_max_n_steps |-> invoke_tx_max_n_steps]
    /\ output = NoOutput
    /\ resources = NewResources
    /\ hint = NoHint

NextSteps == CallMaxInvokeSteps

SpecSteps == InitSteps /\ [][NextSteps]_vars

(* ------------------ specification: the syscall outcomes ---------------- *)

\* Point ids a request carries: of allocated points, of points not yet
\* allocated, and a felt beyond usize.
Secp256k1Ids == {0, 1, USIZE_MAX + 1}

\* Keccak inputs of half a block, of one block, and of more blocks than the
\* largest gas counter pays for; coordinates of a point of the curve and of
\* none; point ids; a selector without a match arm; a call that runs a
\* second frame.
SyscallRequests ==
    {Request("EmitEvent", 0, 0), Request("GetCallerAddress", 0, 0),
     Request("CallContract", 1, 0)}
    \cup {Request("Keccak", n, 0) : n \in {1, 2, 2 * MaxGas}}
    \cup {Request("Secp256k1New", p, 0) : p \in {1, 3}}
    \cup {Request("Secp256k1Add", 0, rhs) : rhs \in {0, 1}}
    \cup {Request("Secp256k1GetXy", id, 0) : id \in Secp256k1Ids}

InitSyscalls == InitWith({1})

NextSyscalls ==
    \/ /\ topCalls = 0
       /\ TopExecute(RootCall(NoneVal, 1))
    \/ /\ nOps < MaxSyscallOps
       /\ \E request \in SyscallRequests, gas \in StorageGasCounters, ptr \in Pointers :
            ExecuteSyscall(request, gas, ptr)
    \/ /\ nOps < MaxSyscallOps
       /\ \E request \in SyscallRequests, gas \in StorageGasCounters, ptr \in Pointers :
            ExecuteCallSyscall(request, gas, ptr)
    \/ \E ptr \in Pointers : BadPointerHint(ptr)
    \/ InnerReturn
    \/ \E ending \in Endings : VmFinish(ending[1], ending[2], 0)
    \/ TopReturn

SpecSyscalls == InitSyscalls /\ [][NextSyscalls]_vars

(* --------------------- specification: the delegation ------------------- *)

\* A read and a write of one key, a call to the contract of address 2 and a
\* library call of the class of address 1.
DelegationRequests ==
    {Request("StorageRead", 1, 0), Request("StorageWrite", 1, 2),
     Request("CallContract", 2, 0), Request("LibraryCall", 1, 0)}

\* A block that allows three nested frames, and a transaction of version 1.
InitDelegation ==
    /\ context = [NewContext(1, MaxNSteps) EXCEPT
                        !.max_recursion_depth = MaxDelegationDepth]
    /\ state = [a \in Addresses |-> [k \in StorageKeys |-> 0]]
    /\ stack = <<>>
    /\ ret = NoRet
    /\ result = NoRet
    /\ startDepth = 0
    /\ topCalls = 0
    /\ nOps = 0
    /\ lastResp = NoResponse
    /\ dispatched = DefaultCall
    /\ input = NoInput
    /\ output = NoOutput
    /\ resources = NewResources
    /\ hint = NoHint

NextDelegation ==
    \/ /\ topCalls = 0
       /\ TopExecute(RootCall(NoneVal, 1))
    \/ /\ nOps < MaxDelegationOps
       /\ \E request \in DelegationRequests :
            ExecuteSyscall(request, MaxGas, ExpectedPtr)
    \/ /\ nOps < MaxDelegationOps
       /\ \E request \in DelegationRequests :
            ExecuteCallSyscall(request, MaxGas, ExpectedPtr)
    \/ InnerReturn
    \/ VmFinish(FALSE, <<>>, 0)
    \/ TopReturn

SpecDelegation == InitDelegation /\ [][NextDelegation]_vars

(* ---------------------- specification: the step meter ------------------ *)

\* Calls that run an inner frame, by a call and by a library call.
MeterRequests == {Request("CallContract", 1, 0), Request("LibraryCall", 1, 0)}

\* Steps handed to subtract_steps: fewer than the budget, all of it, more.
StepsToSubtract == 0 .. MaxNSteps + 1

InitMeter == InitWith({1})

NextMeter ==
    \/ \E call \in {RootCall(NoneVal, 1)} : TopExecute(call)
    \/ ConsumeStep
    \/ \E steps_to_subtract \in StepsToSubtract : CallSubtractSteps(steps_to_subtract)
    \/ /\ nOps < MaxMeterOps
       /\ \E request \in MeterRequests :
            ExecuteCallSyscall(request, MaxGas, ExpectedPtr)
    \/ InnerReturn
    \/ VmFinish(FALSE, <<>>, 0)
    \/ VmError("VirtualMachineExecutionError")
    \/ TopReturn

SpecMeter == InitMeter /\ [][NextMeter]_vars

(* ---------------------- specification: the failures -------------------- *)

\* An event, a message, writes of two values, a call that runs a frame on
\* another storage address and a call to an address nothing is deployed at.
FailureRequests ==
    {Request("EmitEvent", 0, 0), Request("SendMessageToL1", 0, 0),
     Request("StorageWrite", 1, 1), Request("StorageWrite", 1, 0),
     Request("CallContract", 2, 0), Request("CallContract", 3, 0)}

InitFailures == InitWith({1})

NextFailures ==
    \/ /\ topCalls = 0
       /\ TopExecute(RootCall(NoneVal, 1))
    \/ /\ nOps < MaxFailureOps
       /\ \E request \in FailureRequests : ExecuteSyscall(request, MaxGas, ExpectedPtr)
    \/ /\ nOps < MaxFailureOps
       /\ \E request \in FailureRequests :
            ExecuteCallSyscall(request, MaxGas, ExpectedPtr)
    \/ InnerReturn
    \/ \E ending \in Endings : VmFinish(ending[1], ending[2], 0)
    \/ \E error \in RunErrors : VmError(error)
    \/ TopReturn

SpecFailures == InitFailures /\ [][NextFailures]_vars

(* ------------------------- claims: the dispatcher ---------------------- *)

\* The driver is between two top-level execute calls.
Idle == stack = <<>> /\ ret.kind = "None"

\* A step in which an execute call begins (only execute's first statement
\* increases the recursion depth).
ExecuteBegins ==
    context'.current_recursion_depth = context.current_recursion_depth + 1

\* The step's execute call returned early or started a frame: nothing but the
\* recursion depth changed in the context, and the state was not written.
NoEffects ==
    /\ state' = state
    /\ context'.n_emitted_events = context.n_emitted_events
    /\ context'.n_sent_messages_to_l1 = context.n_sent_messages_to_l1
    /\ context'.error_stack = context.error_stack

\* The step's execute call started no VM run.
NoRunStarted ==
    /\ Len(stack') = Len(stack)
    /\ \A i \in 1 .. Len(stack) : stack'[i].call = stack[i].call

\* C1: current_recursion_depth is 0 before and after every top-level execute
\* call, whatever its outcome.
C1_DepthZeroBetweenTopCalls ==
    Idle => context.current_recursion_depth = 0

\* C4: no VM run is in progress beyond max_recursion_depth frames, and on a
\* context that was at depth 0 the dispatch at nesting level
\* max_recursion_depth + 1, and only that one, returns RecursionDepthExceeded,
\* whatever its descriptor.
C4_RecursionBounded ==
    /\ Len(stack) <= context.max_recursion_depth
    /\ (startDepth = 0 /\ ret.kind = "Err" /\ ret.error = "RecursionDepthExceeded")
            => ret.at = context.max_recursion_depth + 1
    /\ (startDepth = 0 /\ ret.kind = "Err" /\ ret.at = Len(stack) + 1
            /\ ret.at = context.max_recursion_depth + 1)
            => ret.error = "RecursionDepthExceeded"
    /\ (startDepth = 0 /\ Running)
            => context.current_recursion_depth = Len(stack)

\* C4 witness: max_recursion_depth frames were running and the next dispatch,
\* to an address nothing is deployed at, returned RecursionDepthExceeded.
C4_Witness ==
    /\ startDepth = 0
    /\ Len(stack) = context.max_recursion_depth
    /\ ret.kind = "Err"
    /\ ret.error = "RecursionDepthExceeded"
    /\ ClassHashAt(dispatched.storage_address) = ZeroClassHash

\* C9 as stated: every execute on a descriptor whose storage address has class
\* hash zero fails with UninitializedStorageAddress(storage_address).
C9_UninitializedAlways ==
    [][(ExecuteBegins /\ startDepth' = 0
            /\ ClassHashAt(dispatched'.storage_address) = ZeroClassHash)
        => (ret'.kind = "Err" /\ ret'.error = "UninitializedStorageAddress")]_vars

\* C9 amended: an execute within the recursion bound on a descriptor whose
\* storage address has class hash zero fails with
\* UninitializedStorageAddress(storage_address), with or without a class
\* hash in the descriptor, starts no VM run and leaves the state, the event
\* and message counters and the error stack unchanged.
C9_UninitializedWithinBound ==
    [][(ExecuteBegins
            /\ context'.current_recursion_depth <= context'.max_recursion_depth
            /\ ClassHashAt(dispatched'.storage_address) = ZeroClassHash)
        => (/\ ret'.kind = "Err"
            /\ ret'.error = "UninitializedStorageAddress"
            /\ ret'.address = dispatched'.storage_address
            /\ NoRunStarted
            /\ NoEffects)]_vars

\* C9 witness: a descriptor that supplies a class hash failed with
\* UninitializedStorageAddress on a context that had recorded effects.
C9_Witness ==
    /\ ret.kind = "Err"
    /\ ret.error = "UninitializedStorageAddress"
    /\ ret.address = 3
    /\ dispatched.class_hash # NoneVal
    /\ context.n_emitted_events > 0
    /\ state[1][1] = 1

\* C10: within the recursion bound and on an initialized storage address,
\* execute fails with FraudAttempt exactly when the version is 0 and the
\* effective class hash is FAULTY_CLASS_HASH, and then no VM run starts; with
\* another version the faulty class is dispatched.
C10_FraudGate ==
    [][(ExecuteBegins
            /\ context'.current_recursion_depth <= context'.max_recursion_depth
            /\ ClassHashAt(dispatched'.storage_address) # ZeroClassHash)
        => LET effective ==
                   IF dispatched'.class_hash # NoneVal THEN dispatched'.class_hash
                   ELSE ClassHashAt(dispatched'.storage_address)
               gated == context.version = 0 /\ effective = FaultyClassHash
           IN  /\ (ret'.kind = "Err" /\ ret'.error = "FraudAttempt") <=> gated
               /\ gated => (NoRunStarted /\ NoEffects)
               /\ (~gated /\ effective = FaultyClassHash)
                    => (/\ ret'.kind = "None"
                        /\ Len(stack') = Len(stack) + 1
                        /\ stack'[Len(stack')].call.class_hash = FaultyClassHash)]_vars

\* C10 witness: a version-0 library call of the faulty class was refused.
C10_Witness ==
    /\ context.version = 0
    /\ ret.kind = "Err"
    /\ ret.error = "FraudAttempt"
    /\ dispatched.class_hash = FaultyClassHash
    /\ dispatched.call_type = "Delegate"

(* -------------------------- claims: the emissions ---------------------- *)

RECURSIVE EventsOf(_), MessagesOf(_)

\* The events of a sequence of frames, frame after frame.
EventsOf(frames) ==
    IF frames = <<>> THEN <<>>
    ELSE Head(frames).execution.events \o EventsOf(Tail(frames))

\* The L2-to-L1 messages of a sequence of frames, frame after frame.
MessagesOf(frames) ==
    IF frames = <<>> THEN <<>>
    ELSE Head(frames).execution.l2_to_l1_messages \o MessagesOf(Tail(frames))

\* The orders of `ordered` are exactly 0 .. n - 1, each once.
DensePrefix(ordered, n) ==
    /\ Len(ordered) = n
    /\ {ordered[i].order : i \in 1 .. Len(ordered)} = 0 .. (n - 1)

\* The top-level execute returned a call tree.
TreeReturned == result.kind = "Ok"

\* C2: in the call tree a top-level execute on a fresh context returns, the
\* orders of all events are exactly 0 .. n_emitted_events - 1 and the orders
\* of all messages exactly 0 .. n_sent_messages_to_l1 - 1, also when an inner
\* call returned failed = true.
C2_OrdersDense ==
    (TreeReturned /\ topCalls = 1 /\ startDepth = 0)
        => /\ DensePrefix(EventsOf(PreOrder(result.info)), context.n_emitted_events)
           /\ DensePrefix(MessagesOf(PreOrder(result.info)),
                          context.n_sent_messages_to_l1)

\* Emitted earlier means a strictly smaller order (the payload of an emission
\* is the number of the syscall that emitted it).
EmissionOrdered(payloads, orders) ==
    \A i, j \in 1 .. Len(orders) :
        payloads[i] < payloads[j] => orders[i] < orders[j]

EventPayloads(ordered) == [i \in 1 .. Len(ordered) |-> ordered[i].event]

MessagePayloads(ordered) == [i \in 1 .. Len(ordered) |-> ordered[i].message.payload[1]]

Orders(ordered) == [i \in 1 .. Len(ordered) |-> ordered[i].order]

\* The scenario of two events, a call whose frame emits one event, and a
\* fourth event, on a fresh context.
TwoEventsCallEvent(info) ==
    /\ Len(info.execution.events) = 3
    /\ Len(info.inner_calls) = 1
    /\ Len(info.inner_calls[1].execution.events) = 1
    /\ info.inner_calls[1].inner_calls = <<>>
    /\ info.execution.events[2].event < info.inner_calls[1].execution.events[1].event
    /\ info.inner_calls[1].execution.events[1].event < info.execution.events[3].event
    /\ context.n_emitted_events = 4

\* C3: in a returned call tree, of two events (of two messages) the one
\* emitted earlier has the strictly smaller order, wherever in the tree they
\* are; a frame that emits two events, calls a frame that emits one, then
\* emits a fourth has orders 0, 1, 3 and the called frame has order 2.
C3_EmissionOrder ==
    TreeReturned
        => /\ EmissionOrdered(EventPayloads(EventsOf(PreOrder(result.info))),
                              Orders(EventsOf(PreOrder(result.info))))
           /\ EmissionOrdered(MessagePayloads(MessagesOf(PreOrder(result.info))),
                              Orders(MessagesOf(PreOrder(result.info))))
           /\ TwoEventsCallEvent(result.info)
                => /\ Orders(result.info.execution.events) = <<0, 1, 3>>
                   /\ Orders(result.info.inner_calls[1].execution.events) = <<2>>

\* C3 witness: the scenario happened.
C3_Witness ==
    /\ TreeReturned
    /\ TwoEventsCallEvent(result.info)
    /\ Orders(result.info.execution.events) = <<0, 1, 3>>

\* C7: every CallInfo an inner execute returns is pushed into the calling
\* frame's inner_calls, also one that reports failed = true.
C7_InnerCallPushed ==
    [][(stack # <<>> /\ ret.kind = "Ok")
        => (/\ Len(stack') = Len(stack)
            /\ stack'[Len(stack)].inner_calls = Append(Top.inner_calls, ret.info))]_vars

(* ------------------------- claims: the gas protocol -------------------- *)

\* A step in which a syscall response is written.
ResponseWritten == lastResp' # lastResp

\* The accumulators of the frame at `level` are the same after the step.
SameAccumulators(level) ==
    /\ stack'[level].inner_calls = stack[level].inner_calls
    /\ stack'[level].events = stack[level].events
    /\ stack'[level].l2_to_l1_messages = stack[level].l2_to_l1_messages
    /\ stack'[level].read_values = stack[level].read_values
    /\ stack'[level].accessed_keys = stack[level].accessed_keys

\* C5: a syscall whose request gas counter is below the selector's base gas
\* cost is answered with Failure, the gas counter of the request and the
\* single error word OUT_OF_GAS_ERROR; the hint succeeds and the callback is
\* not invoked: no state write, no event, message or ordinal, no inner call.
C5_OutOfGas ==
    [][(ResponseWritten /\ lastResp'.request_gas < BaseGasCost(lastResp'.selector))
        => (/\ lastResp'.kind = "Failure"
            /\ lastResp'.gas_counter = lastResp'.request_gas
            /\ lastResp'.error_data = <<OUT_OF_GAS_ERROR>>
            /\ ret' = NoRet
            /\ Len(stack') = Len(stack)
            /\ SameAccumulators(Len(stack))
            /\ ~stack'[Len(stack)].pending.active
            /\ state' = state
            /\ context' = context
            /\ dispatched' = dispatched)]_vars

\* C5 witness: after an event, a StorageWrite with a gas counter of 1, below
\* its base cost, was answered out of gas with that gas counter.
C5_Witness ==
    /\ Running
    /\ lastResp.kind = "Failure"
    /\ lastResp.error_data = <<OUT_OF_GAS_ERROR>>
    /\ lastResp.selector = "StorageWrite"
    /\ lastResp.request_gas = 1
    /\ lastResp.gas_counter = 1
    /\ Top.answered.selector = "StorageWrite"
    /\ Top.events # <<>>
    /\ Top.accessed_keys = {}

\* C6: an inner call that returns failed = true with retdata R is answered
\* with Failure, error_data = R and gas_counter = request gas counter - base
\* gas cost - the inner call's gas_consumed.
C6_InnerFailureGas ==
    [][(stack # <<>> /\ ret.kind = "Ok" /\ ret.info.execution.failed)
        => (/\ ResponseWritten
            /\ lastResp'.kind = "Failure"
            /\ lastResp'.error_data = ret.info.execution.retdata
            /\ lastResp'.gas_counter =
                    Top.pending.gas_counter - BaseGasCost(Top.pending.selector)
                        - ret.info.execution.gas_consumed)]_vars

\* The pointer at which the frame's most recent syscall began.
LastSyscallStart(frame) ==
    IF frame.pending.active THEN frame.pending.ptr_start ELSE frame.answered.ptr_start

\* Cells of a request block: the selector, the gas counter, the request body.
RequestBlockSize(selector) == 1 + 1 + RequestBodySize(selector)

\* C8: when a frame that has answered a syscall begins its next one, the
\* pointer of the second is the pointer of the first plus the sizes of the
\* first's request block and response block, on the Success path, the
\* SyscallError Failure path and the out-of-gas Failure path.
C8_ConsecutivePointers ==
    [][(/\ Running
        /\ Len(stack') >= Len(stack)
        /\ Top.answered.kind # "None"
        /\ LastSyscallStart(stack'[Len(stack)]) # LastSyscallStart(Top))
        => LastSyscallStart(stack'[Len(stack)]) =
                Top.answered.ptr_start + RequestBlockSize(Top.answered.selector)
                    + ResponseSize(Top.answered.kind, Top.answered.selector)]_vars

\* C8 witness: a frame began a syscall after an inner call it made had
\* failed, and that syscall was refused for lack of gas.
C8_Witness ==
    /\ Running
    /\ Len(stack) = 1
    /\ dispatched.caller_address = 1
    /\ Top.inner_calls = <<>>
    /\ Top.answered.kind = "Failure"
    /\ Top.answered.selector = "EmitEvent"
    /\ Top.answered.ptr_start = RequestBlockSize("CallContract") + 4
    /\ lastResp.error_data = <<OUT_OF_GAS_ERROR>>

(* ------------------------- claims: the constructor --------------------- *)

RECURSIVE AllPopulated(_)
\* Every frame of the sequence has a class hash in its call.
AllPopulated(frames) ==
    \/ frames = <<>>
    \/ /\ Head(frames).call.class_hash # NoneVal
       /\ AllPopulated(Tail(frames))

\* The class hash execute resolves for a descriptor: the one supplied, or
\* else the one stored at the storage address.
SuppliedOrStored(call) ==
    IF call.class_hash # NoneVal THEN call.class_hash
    ELSE ClassHashAt(call.storage_address)

\* C11: the frame a successful dispatch starts has the class hash supplied
\* in the descriptor, or else the one stored at its storage address, and is
\* the descriptor otherwise; the CallInfo of a frame carries the frame's
\* call; so every CallInfo returned, at every depth, has call.class_hash
\* populated, and the CallInfo of an empty constructor has the class hash of
\* the constructor context.
C11_ClassHashPopulated ==
    [][/\ (ExecuteBegins /\ Len(stack') = Len(stack) + 1)
            => /\ stack'[Len(stack')].call.class_hash = SuppliedOrStored(dispatched')
               /\ stack'[Len(stack')].call.class_hash # NoneVal
               /\ [stack'[Len(stack')].call EXCEPT !.class_hash = dispatched'.class_hash]
                    = dispatched'
       /\ (Len(stack') = Len(stack) - 1 /\ ret'.kind = "Ok")
            => ret'.info.call = Top.call
       /\ (ret'.kind = "Ok" /\ ~ExecuteBegins /\ Len(stack') = Len(stack)
                /\ input'.fn = "execute_constructor_entry_point")
            => ret'.info.call.class_hash = input'.ctor_context.class_hash
       /\ ret'.kind = "Ok" => AllPopulated(PreOrder(ret'.info))
       /\ result'.kind = "Ok" => AllPopulated(PreOrder(result'.info))]_vars

\* C11 witness: the driver got a call tree whose root took the class hash
\* stored at its address and whose inner frame, a library call, the class
\* hash its descriptor supplied, which is not the one stored at its address.
C11_Witness ==
    /\ result.kind = "Ok"
    /\ result.info.call.class_hash = ClassHashAt(result.info.call.storage_address)
    /\ Len(result.info.inner_calls) = 1
    /\ result.info.inner_calls[1].call.call_type = "Delegate"
    /\ result.info.inner_calls[1].call.class_hash = FaultyClassHash
    /\ ClassHashAt(result.info.inner_calls[1].call.storage_address) = 1

\* A step in which execute_constructor_entry_point is called on a declared
\* class that exposes no constructor.
EmptyConstructorCalled ==
    /\ topCalls' = topCalls + 1
    /\ input'.fn = "execute_constructor_entry_point"
    /\ input'.ctor_context.class_hash \in DeclaredClasses
    /\ ConstructorSelector(input'.ctor_context.class_hash) = NoneVal

\* C15: execute_constructor_entry_point on a class without constructor
\* succeeds exactly when the calldata is empty; it then returns the
\* synthetic CallInfo (Constructor, selector_from_name("constructor"), empty
\* calldata, the class hash of the constructor context, nothing else set);
\* with calldata it fails with InvalidExecutionInput on
\* "constructor_calldata"; either way no VM run starts and the context and
\* the state are unchanged.
C15_EmptyConstructor ==
    [][EmptyConstructorCalled
        => /\ ret'.kind = "Ok" <=> input'.calldata = <<>>
           /\ ret'.kind = "Ok"
                => /\ ret'.info.call.entry_point_type = "Constructor"
                   /\ ret'.info.call.entry_point_selector = SelectorFromName("constructor")
                   /\ ret'.info.call.calldata = <<>>
                   /\ ret'.info.call.class_hash = input'.ctor_context.class_hash
                   /\ ret'.info.call.storage_address = input'.ctor_context.storage_address
                   /\ ret'.info.inner_calls = <<>>
                   /\ ret'.info.execution = DefaultCallInfo.execution
                   /\ ret'.info.storage_read_values = <<>>
                   /\ ret'.info.accessed_storage_keys = {}
           /\ ret'.kind # "Ok"
                => /\ ret'.kind = "Err"
                   /\ ret'.error = "InvalidExecutionInput"
                   /\ ret'.input_descriptor = "constructor_calldata"
           /\ stack' = stack
           /\ context' = context
           /\ state' = state]_vars

\* C15 witness: on a context that had run a call, the empty constructor of
\* class 4 was refused because calldata was passed.
C15_Witness ==
    /\ topCalls = 2
    /\ context.n_emitted_events > 0
    /\ input.fn = "execute_constructor_entry_point"
    /\ input.ctor_context.class_hash = 4
    /\ input.calldata # <<>>
    /\ ret.kind = "Err"
    /\ ret.error = "InvalidExecutionInput"

(* --------------------------- claims: the storage ----------------------- *)

\* A step in which the running frame executes a storage syscall: its
\* callback ran and the response was written.
StorageSyscallExecuted(selector) ==
    /\ nOps' = nOps + 1
    /\ lastResp'.seq = nOps'
    /\ lastResp'.selector = selector
    /\ lastResp'.kind = "Success"

\* C12: a StorageRead a frame executes appends the value it returns, the
\* value stored under the key at the frame's storage address, to the
\* frame's read_values and puts the key into its accessed_keys; a
\* StorageWrite puts the key into accessed_keys; nothing else changes the
\* read_values of a frame or removes a key; a frame starts with both empty
\* and its CallInfo reports both; so read_values is the sequence of the
\* values the frame's reads returned, in order, and accessed_keys holds
\* every key it read or wrote.
C12_StorageAccessLog ==
    [][/\ StorageSyscallExecuted("StorageRead")
            => /\ stack'[Len(stack)].read_values =
                        Append(Top.read_values, lastResp'.value)
               /\ lastResp'.value = state[Top.call.storage_address][lastResp'.arg]
               /\ lastResp'.arg \in stack'[Len(stack)].accessed_keys
       /\ StorageSyscallExecuted("StorageWrite")
            => lastResp'.arg \in stack'[Len(stack)].accessed_keys
       /\ \A i \in 1 .. Len(stack) :
            i <= Len(stack')
                => /\ stack[i].accessed_keys \subseteq stack'[i].accessed_keys
                   /\ ~(StorageSyscallExecuted("StorageRead") /\ i = Len(stack))
                        => stack'[i].read_values = stack[i].read_values
       /\ Len(stack') = Len(stack) + 1
            => /\ stack'[Len(stack')].read_values = <<>>
               /\ stack'[Len(stack')].accessed_keys = {}
       /\ (Len(stack') = Len(stack) - 1 /\ ret'.kind = "Ok")
            => /\ ret'.info.storage_read_values = Top.read_values
               /\ ret'.info.accessed_storage_keys = Top.accessed_keys]_vars

\* C12 witness: a frame called through CallContract read key 1, wrote key 2
\* and read key 2: it read 0 then 1 and accessed both keys, while its
\* caller's log is empty.
C12_Witness ==
    /\ Len(stack) = 1
    /\ ret.kind = "Ok"
    /\ ret.info.storage_read_values = <<0, 1>>
    /\ ret.info.accessed_storage_keys = {1, 2}
    /\ Top.read_values = <<>>
    /\ Top.accessed_keys = {}

(* -------------------------- claims: the call trees --------------------- *)

\* The messages of the tree the driver holds, frame after frame in
\* pre-order, and their number N_m.
TreeMessagesInPreOrder == MessagesOf(PreOrder(result.info))

\* Some message of the tree has an order that is not below N_m.
SomeOrderOutOfRange ==
    \E i \in 1 .. Len(TreeMessagesInPreOrder) :
        TreeMessagesInPreOrder[i].order >= Len(TreeMessagesInPreOrder)

\* The index k is the order of no message of the tree.
OrderMissing(k) ==
    \A i \in 1 .. Len(TreeMessagesInPreOrder) : TreeMessagesInPreOrder[i].order # k

SomeOrderMissing ==
    \E k \in 0 .. Len(TreeMessagesInPreOrder) - 1 : OrderMissing(k)

PayloadsLengthReturned == output.fn = "get_sorted_l2_to_l1_payloads_length"

\* C13: get_sorted_l2_to_l1_payloads_length fails exactly when some message
\* of the tree has an order >= N_m or some index below N_m is the order of
\* no message; when it succeeds, it returns N_m lengths and the length at
\* index k is the payload length of the message whose order is k.
C13_SortedPayloadLengths ==
    PayloadsLengthReturned
        => /\ output.kind = "Err" <=> (SomeOrderOutOfRange \/ SomeOrderMissing)
           /\ output.kind # "Err"
                => /\ output.kind = "Ok"
                   /\ Len(output.value) = Len(TreeMessagesInPreOrder)
                   /\ \A i \in 1 .. Len(TreeMessagesInPreOrder) :
                        output.value[TreeMessagesInPreOrder[i].order + 1] =
                            Len(TreeMessagesInPreOrder[i].message.payload)

\* C13 witness: three messages in three nested frames, sent with the orders
\* 2, 0, 1 in pre-order and payloads of 2, 1 and 0 felts, gave the lengths
\* 1, 0, 2.
C13_Witness ==
    /\ PayloadsLengthReturned
    /\ output.kind = "Ok"
    /\ output.value = <<1, 0, 2>>
    /\ Orders(TreeMessagesInPreOrder) = <<2, 0, 1>>
    /\ Len(result.info.inner_calls) = 1
    /\ Len(result.info.inner_calls[1].inner_calls) = 1

\* The first message in pre-order whose order is out of range.
FirstOutOfRange ==
    TreeMessagesInPreOrder[
        CHOOSE i \in 1 .. Len(TreeMessagesInPreOrder) :
            /\ TreeMessagesInPreOrder[i].order >= Len(TreeMessagesInPreOrder)
            /\ \A j \in 1 .. i - 1 :
                    TreeMessagesInPreOrder[j].order < Len(TreeMessagesInPreOrder)]

\* The smallest index that is the order of no message.
SmallestMissing ==
    CHOOSE k \in 0 .. Len(TreeMessagesInPreOrder) - 1 :
        /\ OrderMissing(k)
        /\ \A l \in 0 .. k - 1 : ~OrderMissing(l)

\* C14: when some order is out of range the error is InvalidOrder with the
\* order of the first such message in pre-order and max_order = N_m, also
\* when an index is missing as well; otherwise, when an index is missing,
\* the error is UnexpectedHoles with the smallest missing index.
C14_ErrorPolicy ==
    (PayloadsLengthReturned /\ output.kind = "Err")
        => IF SomeOrderOutOfRange
           THEN /\ output.error = "InvalidOrder"
                /\ output.order = FirstOutOfRange.order
                /\ output.max_order = Len(TreeMessagesInPreOrder)
           ELSE /\ SomeOrderMissing
                /\ output.error = "UnexpectedHoles"
                /\ output.order = SmallestMissing

\* C14 witness: a tree of two messages in which index 0 is missing and the
\* two inner calls hold out-of-range orders, 3 in the left one and 2 in the
\* right one, gave InvalidOrder for 3 with max_order 2.
C14_Witness ==
    /\ PayloadsLengthReturned
    /\ output.kind = "Err"
    /\ output.error = "InvalidOrder"
    /\ output.order = 3
    /\ output.max_order = 2
    /\ OrderMissing(0)
    /\ Len(result.info.inner_calls) = 2
    /\ result.info.execution.l2_to_l1_messages = <<>>
    /\ Orders(result.info.inner_calls[1].execution.l2_to_l1_messages) = <<3>>
    /\ Orders(result.info.inner_calls[2].execution.l2_to_l1_messages) = <<2>>

RECURSIVE ClassHashesOf(_)
\* The class hashes of the frames of a tree, at every depth.
ClassHashesOf(info) ==
    {info.call.class_hash}
        \cup UNION {ClassHashesOf(info.inner_calls[i]) : i \in 1 .. Len(info.inner_calls)}

RECURSIVE FrameCount(_), FrameCountAll(_)
\* The number of frames of a tree.
FrameCount(info) == 1 + FrameCountAll(info.inner_calls)

\* The number of frames of a sequence of trees.
FrameCountAll(infos) ==
    IF infos = <<>> THEN 0
    ELSE FrameCount(Head(infos)) + FrameCountAll(Tail(infos))

\* C18: the iterator yields the frames of the tree in pre-order (a frame,
\* then the traversal of each of its inner calls, left to right), each frame
\* once, and get_executed_class_hashes returns exactly the set of the class
\* hashes of the frames of the tree, at every depth.
C18_ExecutedClassHashes ==
    /\ output.fn = "into_iter"
        => /\ output.value = PreOrder(result.info)
           /\ Len(output.value) = FrameCount(result.info)
    /\ output.fn = "get_executed_class_hashes"
        => /\ output.kind = "Ok"
           /\ output.value = ClassHashesOf(result.info)

\* C18 witness: for a frame of class 1 with two inner calls, of the faulty
\* class and of class 4, the iterator yielded the three frames, the left
\* inner call before the right one.
C18_Witness ==
    /\ output.fn = "into_iter"
    /\ Len(output.value) = 3
    /\ Len(result.info.inner_calls) = 2
    /\ output.value[2].call.class_hash = FaultyClassHash
    /\ output.value[3].call.class_hash = 4
    /\ ClassHashesOf(result.info) = {1, FaultyClassHash, 4}

(* -------------------------- claims: the step budget -------------------- *)

\* C16: for every input max_invoke_steps returns a number of steps, which
\* exceeds neither MAX_STEPS_PER_TX nor invoke_tx_max_n_steps: with
\* max_fee = 0 min(MAX_STEPS_PER_TX, invoke_tx_max_n_steps), and otherwise
\* (for a gas_per_step that is not zero) the smallest of
\* floor((max_fee / gas_price) / gas_per_step), MAX_STEPS_PER_TX and
\* invoke_tx_max_n_steps.
C16_MaxInvokeSteps ==
    output.fn = "max_invoke_steps"
        => /\ output.kind = "Ok"
           /\ output.value <= MAX_STEPS_PER_TX
           /\ output.value <= input.invoke_tx_max_n_steps
           /\ input.max_fee = 0
                => output.value = Min(MAX_STEPS_PER_TX, input.invoke_tx_max_n_steps)
           /\ (input.max_fee # 0 /\ input.gas_per_step.num # 0)
                => output.value =
                    Min(Min(((input.max_fee \div input.gas_price)
                                * input.gas_per_step.den) \div input.gas_per_step.num,
                            MAX_STEPS_PER_TX),
                        input.invoke_tx_max_n_steps)

(* ---------------------------- claims: the errors ----------------------- *)

FrameFails == Len(stack') = Len(stack) - 1 /\ ret'.kind = "Err"

\* C19: the execute call of a frame whose run failed returns either
\* VirtualMachineExecutionErrorWithTrace, after pushing exactly the entry
\* (the frame's storage_address, the VM trace text) and with error_trace()
\* of the stack that has the new entry, or an error of another kind and
\* then with the error stack as it was; a VM error is never returned as it
\* is; no other step changes the error stack, so no entry is ever removed.
C19_ErrorStackPush ==
    [][IF FrameFails /\ ret'.error = "VirtualMachineExecutionErrorWithTrace"
       THEN /\ context'.error_stack =
                    Append(context.error_stack,
                           <<Top.call.storage_address, "VirtualMachineExecutionError">>)
            /\ ret'.trace = ErrorTrace(context')
       ELSE /\ context'.error_stack = context.error_stack
            /\ FrameFails
                => /\ ret'.error \in RunErrors \ {"VirtualMachineExecutionError"}
                   /\ ret'.trace = <<>>]_vars

\* C19 witness: an inner frame failed with an error that is not of the VM
\* kind, which was returned as it is and pushed nothing, and its caller's
\* run then failed with a VM error, which pushed the caller's entry.
C19_Witness ==
    /\ stack = <<>>
    /\ ret.kind = "Err"
    /\ ret.error = "VirtualMachineExecutionErrorWithTrace"
    /\ ret.at = 2
    /\ context.error_stack = <<<<1, "VirtualMachineExecutionError">>>>
    /\ context.version = 1
    /\ dispatched.storage_address = 2
    /\ ClassHashAt(dispatched.storage_address) \in DeclaredClasses

\* The trace in `error`, an error returned from an inner call, if it has one.
TraceBelow(error) ==
    IF error.kind = "Err" /\ error.error = "VirtualMachineExecutionErrorWithTrace"
    THEN <<"\n">> \o error.trace
    ELSE <<>>

HintReturnsError(error) == Running /\ FrameFails /\ hint'.error = error

\* C21: a syscall hint whose pointer is not the processor's syscall_ptr
\* fails with BadSyscallPointer, of the expected and the actual pointer,
\* before anything is read: the processor is dropped as it was (syscall_ptr
\* and every accumulator), and the syscall counters, the state and the
\* event and message counters are unchanged; a hint that is answered, or
\* that fails with another error, carried the processor's syscall_ptr.
C21_BadSyscallPointer ==
    [][/\ HintReturnsError("BadSyscallPointer")
            => /\ hint'.expected_ptr = Top.syscall_ptr
               /\ hint'.actual_ptr # Top.syscall_ptr
               /\ hint'.processor = Top
               /\ resources' = resources
               /\ state' = state
               /\ context'.n_emitted_events = context.n_emitted_events
               /\ context'.n_sent_messages_to_l1 = context.n_sent_messages_to_l1
               /\ lastResp' = lastResp
       /\ (Running /\ FrameFails /\ hint'.error \notin {"None", "BadSyscallPointer"})
            => hint'.actual_ptr = Top.syscall_ptr
       /\ (Running /\ lastResp'.seq # lastResp.seq)
            => stack'[Len(stack)].answered.ptr_start = Top.syscall_ptr]_vars

\* C21 witness: the inner frame, which had emitted an event and allocated a
\* point, was ended by a hint one cell off its syscall_ptr; the caller has
\* not resumed yet.
C21_Witness ==
    /\ Len(stack) = 1
    /\ ret.kind = "Err"
    /\ hint.error = "BadSyscallPointer"
    /\ hint.actual_ptr = hint.expected_ptr + 1
    /\ hint.processor.syscall_ptr = hint.expected_ptr
    /\ Len(hint.processor.events) = 1
    /\ Len(hint.processor.secp256k1_points) = 1
    /\ resources.syscall_counter["EmitEvent"] = 1

\* A step in which a response is written to VM memory (every syscall has
\* its own sequence number).
ResponseIsWritten == lastResp'.seq # lastResp.seq

\* The error data of the SyscallError the callback of the syscall answered
\* in this step returns, <<>> if it returns none: keccak for an input that
\* is not a whole number of blocks or whose rounds the remaining gas does
\* not pay for, a call syscall for an inner call that reports failure.
SyscallErrorData ==
    LET remaining_gas == lastResp'.request_gas - BaseGasCost(lastResp'.selector)
    IN  CASE lastResp'.selector = "Keccak"
                /\ lastResp'.arg % KECCAK_FULL_RATE_IN_WORDS # 0 ->
                    <<INVALID_INPUT_LENGTH_ERROR>>
          [] lastResp'.selector = "Keccak"
                /\ lastResp'.arg % KECCAK_FULL_RATE_IN_WORDS = 0
                /\ (lastResp'.arg \div KECCAK_FULL_RATE_IN_WORDS)
                        * KECCAK_ROUND_COST_GAS_COST > remaining_gas ->
                    <<OUT_OF_GAS_ERROR>>
          [] lastResp'.selector \in {"CallContract", "LibraryCall"}
                /\ ret.info.execution.failed ->
                    ret.info.execution.retdata
          [] OTHER -> <<>>

\* The gas the callback of the syscall answered in this step charges when
\* it returns a response.
CallbackGas ==
    CASE lastResp'.selector = "Keccak" ->
            (lastResp'.arg \div KECCAK_FULL_RATE_IN_WORDS) * KECCAK_ROUND_COST_GAS_COST
      [] lastResp'.selector \in {"CallContract", "LibraryCall"} ->
            ret.info.execution.gas_consumed
      [] OTHER -> 0

\* C22: a syscall whose gas counter covers the base gas cost is answered by
\* the outcome of its callback. A response is written as Success with the
\* remaining gas, and a SyscallError as Failure with the remaining gas and
\* the error data of the error; in both cases the hint returns no error and
\* the frame's run goes on, its syscall_ptr past the response. Any other
\* error of the callback (a point id out of range, the error of an inner
\* execute) writes no response and ends the frame's run.
C22_CallbackOutcome ==
    [][/\ (ResponseIsWritten
                /\ ~IsOutOfGas(lastResp'.request_gas, BaseGasCost(lastResp'.selector)))
            => LET remaining_gas ==
                        lastResp'.request_gas - BaseGasCost(lastResp'.selector)
                   answered == stack'[Len(stack)]
               IN  /\ hint' = hint
                   /\ ret'.kind = "None"
                   /\ Len(stack') = Len(stack)
                   /\ answered.answered.kind = lastResp'.kind
                   /\ answered.syscall_ptr =
                            answered.answered.ptr_start + RequestBlockSize(lastResp'.selector)
                                + ResponseSize(lastResp'.kind, lastResp'.selector)
                   /\ IF SyscallErrorData # <<>>
                      THEN /\ lastResp'.kind = "Failure"
                           /\ lastResp'.error_data = SyscallErrorData
                           /\ lastResp'.gas_counter = remaining_gas
                      ELSE /\ lastResp'.kind = "Success"
                           /\ lastResp'.error_data = <<>>
                           /\ lastResp'.gas_counter = remaining_gas - CallbackGas
       /\ (HintReturnsError("InvalidSyscallInput")
                \/ (stack # <<>> /\ ret.kind = "Err"))
            => /\ FrameFails
               /\ lastResp' = lastResp
               /\ \A i \in 1 .. Len(stack') : stack'[i] = stack[i]
               /\ HintReturnsError("InvalidSyscallInput")
                    => /\ hint'.processor.answered = Top.answered
                       /\ hint'.processor.syscall_ptr =
                            hint'.actual_ptr + RequestBlockSize(hint'.selector)
                       /\ ret'.error = "VirtualMachineExecutionErrorWithTrace"]_vars

\* C22 witness: the frame's keccak of more rounds than its gas paid for was
\* answered with a Failure of the remaining gas and the run went on; its
\* lookup of a point it never allocated then ended the run with a hint
\* error, the Failure still being the last response written.
C22_Witness ==
    /\ stack = <<>>
    /\ ret.kind = "Err"
    /\ hint.error = "InvalidSyscallInput"
    /\ hint.selector = "Secp256k1GetXy"
    /\ hint.processor.answered.kind = "Failure"
    /\ lastResp.kind = "Failure"
    /\ lastResp.selector = "Keccak"
    /\ lastResp.error_data = <<OUT_OF_GAS_ERROR>>
    /\ lastResp.request_gas = MaxGas
    /\ lastResp.gas_counter = MaxGas - BaseGasCost("Keccak")

(* -------------------------- claims: the call tree ---------------------- *)

\* A step in which an inner execute hands a CallInfo back to the frame that
\* dispatched it.
ChildReturns == stack # <<>> /\ ret.kind = "Ok"

\* C23: a frame's inner_calls is the list of the CallInfo of the child calls
\* it dispatched, in dispatch order: each child that returns a CallInfo is
\* appended at the right end when it returns (a frame waits for its child,
\* so children return in the order they were dispatched), no other step
\* changes the inner_calls of any frame, and the CallInfo a frame returns
\* carries its inner_calls as they are.
C23_InnerCallsInDispatchOrder ==
    [][/\ ChildReturns
            => /\ Len(stack') = Len(stack)
               /\ stack'[Len(stack)].inner_calls = Append(Top.inner_calls, ret.info)
       /\ ~ChildReturns
            => \A i \in 1 .. Min(Len(stack), Len(stack')) :
                    stack'[i].inner_calls = stack[i].inner_calls
       /\ (Running /\ ret'.kind = "Ok")
            => ret'.info.inner_calls = Top.inner_calls]_vars

(* -------------------------- claims: the delegation --------------------- *)

\* The nearest enclosing frame of the running one, itself included, that was
\* not entered by a library call (the root frame never is).
RECURSIVE NearestNonDelegate(_)
NearestNonDelegate(frames) ==
    IF Len(frames) = 1 \/ frames[Len(frames)].call.call_type # "Delegate"
    THEN frames[Len(frames)]
    ELSE NearestNonDelegate(SubSeq(frames, 1, Len(frames) - 1))

\* A step in which the running frame's LibraryCall reaches the inner
\* execute.
LibraryCallDispatched ==
    /\ Running
    /\ nOps' = nOps + 1
    /\ Len(stack') >= Len(stack)
    /\ stack'[Len(stack)].pending.active
    /\ stack'[Len(stack)].pending.selector = "LibraryCall"

\* C24: the descriptor execute_library_call dispatches has call type
\* Delegate, no code address, the requested class as its class hash, and
\* the storage address and caller address of the calling frame; so at any
\* depth of nested library calls a StorageRead answers with the value
\* stored at the storage address of the nearest enclosing frame that is not
\* a delegate, and a StorageWrite changes the storage of that address, at
\* the key of the request, and nothing else.
C24_LibraryCallDelegates ==
    [][/\ LibraryCallDispatched
            => /\ dispatched'.call_type = "Delegate"
               /\ dispatched'.code_address = NoneVal
               /\ dispatched'.class_hash = stack'[Len(stack)].pending.arg
               /\ dispatched'.class_hash # NoneVal
               /\ dispatched'.storage_address = Top.call.storage_address
               /\ dispatched'.caller_address = Top.call.caller_address
       /\ (Running /\ ResponseIsWritten /\ lastResp'.kind = "Success"
                /\ lastResp'.selector = "StorageRead")
            => lastResp'.value =
                    state[NearestNonDelegate(stack).call.storage_address][lastResp'.arg]
       /\ state' # state
            => /\ Running
               /\ ResponseIsWritten
               /\ lastResp'.selector = "StorageWrite"
               /\ \A a \in Addresses, k \in StorageKeys :
                    (a # NearestNonDelegate(stack).call.storage_address
                        \/ k # lastResp'.arg)
                    => state'[a][k] = state[a][k]]_vars

\* C24 witness: the frame of address 1 called the contract of address 2,
\* whose frame made a library call of class 1, the class of address 1; the
\* delegate frame, the third on the stack, wrote 2 and read it back: the
\* storage of address 2 has the 2, that of address 1 is untouched.
C24_Witness ==
    /\ Len(stack) = 3
    /\ stack[1].call.storage_address = 1
    /\ stack[2].call.call_type = "Call"
    /\ stack[2].call.storage_address = 2
    /\ stack[3].call.call_type = "Delegate"
    /\ stack[3].call.class_hash = 1
    /\ stack[3].call.storage_address = 2
    /\ stack[3].call.caller_address = 1
    /\ lastResp.selector = "StorageRead"
    /\ lastResp.level = 3
    /\ lastResp.value = 2
    /\ state[2][1] = 2
    /\ state[1][1] = 0

(* ------------------------ claims: the syscall counter ------------------ *)

\* A step in which a syscall hint passes the pointer check.
SyscallHandled == nOps' = nOps + 1

\* The selector of the syscall handled in this step: of the response, of
\* the hint error, or of the inner call the frame now waits for.
HandledSelector ==
    IF ResponseIsWritten THEN lastResp'.selector
    ELSE IF FrameFails THEN hint'.selector
    ELSE stack'[Len(stack)].pending.selector

\* What the syscall handled in this step adds to its selector's count: 1
\* by the dispatcher, or for Keccak the rounds its callback counts when the
\* input is accepted and paid for.
HandledCount ==
    IF HandledSelector # "Keccak" THEN 1
    ELSE IF ResponseIsWritten /\ lastResp'.kind = "Success"
    THEN lastResp'.arg \div KECCAK_FULL_RATE_IN_WORDS
    ELSE 0

\* C25: a syscall hint that passes the pointer check with a selector other
\* than Keccak adds exactly 1 to that selector's entry of syscall_counter
\* and nothing to any other entry, whether it is answered with Success, with
\* a Failure (the out-of-gas one included), or not at all; for Keccak the
\* dispatcher adds nothing, the count being left to the callback; and no
\* other step of a call counts anything.
C25_SyscallCounted ==
    [][/\ SyscallHandled
            => resources'.syscall_counter =
                    [resources.syscall_counter EXCEPT
                        ![HandledSelector] = @ + HandledCount]
       /\ (~SyscallHandled /\ ~Idle) => resources' = resources]_vars

\* C25 witness: a keccak of one block was counted as one round by its
\* callback, and an EmitEvent with no gas was answered with the out-of-gas
\* Failure, emitted nothing, and is counted.
C25_Witness ==
    /\ nOps = 2
    /\ resources.syscall_counter["Keccak"] = 1
    /\ resources.syscall_counter["EmitEvent"] = 1
    /\ lastResp.selector = "EmitEvent"
    /\ lastResp.kind = "Failure"
    /\ lastResp.request_gas = 0
    /\ lastResp.error_data = <<OUT_OF_GAS_ERROR>>
    /\ context.n_emitted_events = 0

(* -------------------------- claims: the step meter --------------------- *)

\* A step in which the VM has the running frame's processor consume a step.
StepConsumed ==
    /\ Running
    /\ ~ExecuteBegins
    /\ input'.fn = "consume_step"
    /\ context'.vm_run_resources # context.vm_run_resources

\* C26: the step budget is one meter for the whole call tree. The step a
\* frame consumes, at any depth, takes one off the context's
\* vm_run_resources and changes nothing else; an execute call, top-level
\* or inner, starts on the budget the context has and does not refill it;
\* and no step of consume_step, subtract_steps, execute or a return ever
\* increases it.
C26_SharedStepBudget ==
    [][/\ context'.vm_run_resources <= context.vm_run_resources
       /\ StepConsumed
            => /\ input'.depth = Len(stack)
               /\ context' = [context EXCEPT
                                !.vm_run_resources = context.vm_run_resources - 1]
               /\ stack' = stack
       /\ ExecuteBegins
            => context'.vm_run_resources = context.vm_run_resources
       /\ (context'.vm_run_resources # context.vm_run_resources)
            => input'.fn \in {"consume_step", "subtract_steps"}]_vars

\* C26 witness: in the second top-level call on the context the root frame
\* and then the frame of its inner call consumed a step each, the inner one
\* the last of the budget: the top-level call began with what the first one
\* had left.
C26_Witness ==
    /\ topCalls = 2
    /\ Len(stack) = 2
    /\ input = [fn |-> "consume_step", depth |-> 2]
    /\ context.vm_run_resources = 0
    /\ context.current_recursion_depth = 2

\* A step in which the driver's subtract_steps changes the context or is
\* its first call with these steps.
StepsSubtracted ==
    /\ Idle
    /\ input'.fn = "subtract_steps"
    /\ <<context, input>>' # <<context, input>>

\* C27: subtract_steps(n) on a budget c leaves c - n when n <= c and 0 when
\* n > c, which is c - min(n, c) and never below zero, and changes no other
\* field of the context.
C27_SubtractSteps ==
    [][StepsSubtracted
        => LET c == context.vm_run_resources
               n == input'.steps_to_subtract
           IN  /\ context' = [context EXCEPT
                                !.vm_run_resources = IF n <= c THEN c - n ELSE 0]
               /\ context'.vm_run_resources = c - Min(n, c)
               /\ context'.vm_run_resources >= 0]_vars

\* C27 witness: subtract_steps was called with more steps than the budget
\* had left after a call that consumed one, and the budget is 0.
C27_Witness ==
    /\ Idle
    /\ topCalls = 1
    /\ input = [fn |-> "subtract_steps", steps_to_subtract |-> MaxNSteps + 1]
    /\ context.vm_run_resources = 0
    /\ context.current_recursion_depth = 0

(* -------------------------- claims: the constructor -------------------- *)

\* A step in which execute_constructor_entry_point is called on a declared
\* class that exposes a constructor.
ConstructorCalled ==
    /\ topCalls' = topCalls + 1
    /\ input'.fn = "execute_constructor_entry_point"
    /\ input'.ctor_context.class_hash \in DeclaredClasses
    /\ ConstructorSelector(input'.ctor_context.class_hash) # NoneVal

IsPrefix(before, points) ==
    /\ Len(before) <= Len(points)
    /\ SubSeq(points, 1, Len(before)) = before

\* A step in which the running frame's request of `selector` is answered
\* with a response.
Answered(selector) ==
    /\ Running
    /\ ResponseIsWritten
    /\ lastResp'.selector = selector
    /\ lastResp'.kind = "Success"

\* The id is not below the number of points the running frame allocated, or
\* is no usize at all.
OutOfRange(ec_point_id) ==
    ToUsize(ec_point_id) = NoneVal
        \/ ToUsize(ec_point_id) >= Len(Top.secp256k1_points)

\* C29: a frame's table of secp256k1 points only grows at its end, so an
\* id keeps the point it was returned for; an allocation appends one point
\* and returns the number of points allocated before it (0, 1, 2, ...); a
\* lookup answers with the point of the id when the id is below the number
\* of points, and every lookup of another id fails with InvalidSyscallInput
\* of that id.
C29_PointTableAppendOnly ==
    [][/\ \A i \in 1 .. Min(Len(stack), Len(stack')) :
            IsPrefix(stack[i].secp256k1_points, stack'[i].secp256k1_points)
       /\ ((Answered("Secp256k1New") /\ lastResp'.value # NoneVal)
                \/ Answered("Secp256k1Add"))
            => /\ lastResp'.value = Len(Top.secp256k1_points)
               /\ Len(stack'[Len(stack)].secp256k1_points) =
                    Len(Top.secp256k1_points) + 1
               /\ lastResp'.selector = "Secp256k1New"
                    => stack'[Len(stack)].secp256k1_points =
                            Append(Top.secp256k1_points, lastResp'.arg)
       /\ Answered("Secp256k1GetXy")
            => /\ ~OutOfRange(lastResp'.arg)
               /\ lastResp'.value = Top.secp256k1_points[lastResp'.arg + 1]
       /\ HintReturnsError("InvalidSyscallInput") => OutOfRange(hint'.input)
       /\ (SyscallHandled /\ HandledSelector = "Secp256k1GetXy"
                /\ (FrameFails \/ ~IsOutOfGas(lastResp'.request_gas,
                                              BaseGasCost("Secp256k1GetXy"))))
            => (HintReturnsError("InvalidSyscallInput")
                    <=> ~Answered("Secp256k1GetXy"))]_vars

\* C29 witness: the frame allocated point 1 under id 0 and the sum of the
\* point with itself under id 1, and its lookup of id 0 then still answered
\* with point 1.
C29_Witness ==
    /\ Len(stack) = 1
    /\ stack[1].secp256k1_points = <<1, Secp256k1Sum(1, 1)>>
    /\ lastResp.selector = "Secp256k1GetXy"
    /\ lastResp.kind = "Success"
    /\ lastResp.arg = 0
    /\ lastResp.value = 1

(* ----------------------------- claims: the gas -------------------------- *)

\* A step in which a call syscall of the running frame reaches the inner
\* execute.
InnerCallDispatched ==
    /\ Running
    /\ SyscallHandled
    /\ Len(stack') >= Len(stack)
    /\ stack'[Len(stack)].pending.active

\* C30: the gas counter of every response is at most the gas counter of
\* its request, and at most that less the base gas cost of the selector
\* unless the response is the out-of-gas Failure; the descriptor of an inner
\* call has as initial_gas the gas counter of the request less the base gas
\* cost.
C30_GasNeverIncreases ==
    [][/\ ResponseIsWritten
            => /\ lastResp'.gas_counter <= lastResp'.request_gas
               /\ lastResp'.gas_counter >= 0
               /\ ~IsOutOfGas(lastResp'.request_gas, BaseGasCost(lastResp'.selector))
                    => lastResp'.gas_counter <=
                            lastResp'.request_gas - BaseGasCost(lastResp'.selector)
       /\ InnerCallDispatched
            => LET pending == stack'[Len(stack)].pending
               IN  /\ ~IsOutOfGas(pending.gas_counter, BaseGasCost(pending.selector))
                   /\ dispatched'.initial_gas =
                        pending.gas_counter - BaseGasCost(pending.selector)]_vars

\* C30 witness: a library call with the largest gas counter ran its inner
\* call on that gas less the base cost, the inner call consumed all of it,
\* and the Success response carries no gas.
C30_Witness ==
    /\ Len(stack) = 1
    /\ lastResp.selector = "LibraryCall"
    /\ lastResp.kind = "Success"
    /\ lastResp.request_gas = MaxGas
    /\ lastResp.gas_counter = 0
    /\ dispatched.call_type = "Delegate"
    /\ dispatched.initial_gas = MaxGas - BaseGasCost("LibraryCall")
    /\ stack[1].inner_calls[1].execution.gas_consumed = dispatched.initial_gas

(* --------------------------- claims: no rollback ------------------------ *)

\* What an execute call returned is a failure: an error, or a CallInfo
\* with failed = true.
Failing(returned) ==
    \/ returned.kind = "Err"
    \/ returned.kind = "Ok" /\ returned.info.execution.failed

\* A step in which a StorageWrite of the running frame is answered with
\* Success.
StorageWritten ==
    /\ Running
    /\ ResponseIsWritten
    /\ lastResp'.selector = "StorageWrite"
    /\ lastResp'.kind = "Success"

\* C31: nothing is rolled back on failure. A step in which an execute call
\* returns an error or a CallInfo with failed = true, or in which such a
\* result reaches the calling frame or the driver, leaves the state,
\* n_emitted_events and n_sent_messages_to_l1 as they were; and in no step
\* at all does either counter decrease or a storage cell change other than
\* the cell a StorageWrite of the running frame writes, at the frame's
\* storage address.
C31_NoRollback ==
    [][/\ (Failing(ret) \/ Failing(ret'))
            => /\ state' = state
               /\ context'.n_emitted_events = context.n_emitted_events
               /\ context'.n_sent_messages_to_l1 = context.n_sent_messages_to_l1
       /\ context'.n_emitted_events >= context.n_emitted_events
       /\ context'.n_sent_messages_to_l1 >= context.n_sent_messages_to_l1
       /\ \A a \in Addresses, k \in StorageKeys :
            state'[a][k] # state[a][k]
                => /\ StorageWritten
                   /\ a = Top.call.storage_address
                   /\ k = lastResp'.arg]_vars

\* C31 witness: the first syscall of the root frame called address 2; the
\* inner frame wrote 1 to its key 1, emitted an event, sent a message and
\* returned with failed = true, so the call was answered with Failure; the
\* root frame's run then failed without another syscall and execute
\* returned an error to the driver. The write and both increments are still
\* there.
C31_Witness ==
    /\ result.kind = "Err"
    /\ nOps = 4
    /\ lastResp.seq = 1
    /\ lastResp.selector = "CallContract"
    /\ lastResp.kind = "Failure"
    /\ lastResp.level = 1
    /\ dispatched.storage_address = 2
    /\ state[2][1] = 1
    /\ context.n_emitted_events = 1
    /\ context.n_sent_messages_to_l1 = 1

====
